---------------------------- MODULE Spec2Model ----------------------------
(***************************************************************************)
(* State-machine model of the VulnMap dashboard client scripts:            *)
(*   scan_animation.js  (src/unnamed/part_000)  - scan overlay animator    *)
(*   resolve_ports.js   (src/unnamed/part_002)  - row action controller    *)
(*   news_search.js     (src/static/js)         - news-search job poller   *)
(*   user_dashboard.js  (src/static/js)         - view-model facade        *)
(* The browser is single threaded: every action below is one event-loop    *)
(* task (an event handler, a timer or frame callback, or the settling of a *)
(* fetch together with the promise reactions that run in its microtasks).  *)
(* Times are in milliseconds.                                              *)
(***************************************************************************)
EXTENDS Integers, Sequences, FiniteSets, TLC

VARIABLES
    \* ---- page DOM shared by the scripts
    dom,            \* which optional elements the page holds
    hdrCounts,      \* #hdr-counts text, as <<discovered, resolved>>
    walletView,     \* #available-balance / #total-earned, as <<available, total>> (1/100 SAR)
    portsBody,      \* #ports-body content as last rendered
    \* ---- scan_animation.js
    scanInFlight,   \* VM.state.scanInFlight
    overlay,        \* overlay.style.display
    btnDisabled,    \* scan button: disabled attribute and class
    barWidth,       \* bar.style.width in 1/10 percent
    barSnap,        \* bar.style.transition was set to the closing transition
    statusText,     \* status.textContent
    scanPc,         \* where the accepted scan stands
    totalMs,        \* const totalMs of the running doScan
    elapsed,        \* now - start at the last tick
    stepIdx,        \* let stepIdx
    payload,        \* let payload
    scanOutstanding,\* scan requests sent and not yet settled
    scanLog,        \* observation counters for the scan flow
    \* ---- resolve_ports.js
    rowTimers,      \* VM.state.rowTimers: row key -> the click whose interval is stored (0: no entry)
    flows,          \* one record per resolve click, in click order
    rowStatus,      \* .td-status of each row
    rowControls,    \* .row-actions of the row still holds the resolve / archive controls
    miniHidden,     \* .mini-progress hidden attribute of each row
    archOut,        \* archive requests sent for each row and not yet settled
    unarchOut,      \* unarchive requests sent and not yet settled
    rowsLive,       \* the row elements of the loaded page are still in #ports-body
    rowLog,         \* observation counters for the archive / unarchive flows
    \* ---- news_search.js
    job,            \* let job: the job the page holds
    tickTimer,      \* let tickTimer: <<>> when null, else <<ms until the interval fires>>
    pollTimer,      \* let pollTimer: <<>> when none is armed, else <<ms until it fires>>
    newsUI,         \* the elements of #news-search-module the script writes
    statusOutstanding, \* status requests sent and not yet settled
    startOutstanding,  \* start requests sent and not yet settled
    serverJob,      \* the job as the backend holds it
    etaIn,          \* job.eta - Date.now() of the running job, never below 0
    newsLog,        \* observation counters for the news-search flow
    newsClear,      \* endpoints.newsClear is defined
    clearOutstanding, \* clear requests sent and not yet settled
    clearBtn,       \* the clear button: disabled, its label, the timeout that restores it
    \* ---- user_dashboard.js: withdrawal form, wallet poll
    amountValue,    \* amountInput.value, a sequence of characters
    wdBtnDisabled,  \* the submit button of the withdrawal form is disabled
    wdOut,          \* bodies of the withdraw requests sent and not yet settled
    withdrawView,   \* the withdrawals summary as last rendered
    walletOut,      \* wallet requests sent and not yet settled
    dashLog,        \* observation counters for the withdrawal and wallet flows
    \* ---- user_dashboard.js: health card
    history,        \* const history: the cpu and ram lists
    metricsOut,     \* metrics requests sent and not yet settled
    healthLog,      \* observation counters for the metrics poll
    \* ---- every script
    wire,           \* the requests handed to fetch so far
    \* ---- index_login.js
    loginPc,        \* "none" before the script runs, "script" once it ran, "ready" after init
    prefersReduced, \* const prefersReduced
    card,           \* const card is an element
    flash,          \* the page holds a .flash.err, a .flash.ok
    bg,             \* bg.rafId (0 when null, else 1) and bg.t in steps of bg.speed
    tilt,           \* tilt.active, the listeners bound on the card, the moves they handled
    effects         \* the card was shaken, the confetti pieces on the page

scanVars == <<scanInFlight, overlay, btnDisabled, barWidth, barSnap, statusText,
              scanPc, totalMs, elapsed, stepIdx, payload, scanOutstanding, scanLog>>
pageVars == <<dom, hdrCounts, walletView, portsBody>>
resolveVars == <<rowTimers, flows, rowStatus, rowControls, miniHidden>>
clearVars == <<newsClear, clearOutstanding, clearBtn>>
newsVars == <<job, tickTimer, pollTimer, newsUI, statusOutstanding, startOutstanding,
              serverJob, etaIn, newsLog, clearVars>>
archiveVars == <<archOut, unarchOut, rowsLive, rowLog>>
dashVars == <<amountValue, wdBtnDisabled, wdOut, withdrawView, walletOut, dashLog>>
healthVars == <<history, metricsOut, healthLog>>
loginVars == <<loginPc, prefersReduced, card, flash, bg, tilt, effects>>
restVars == <<dashVars, healthVars, wire, loginVars>>
vars == <<pageVars, scanVars, resolveVars, archiveVars, newsVars, restVars>>

-----------------------------------------------------------------------------
(* Bounds of the model *)
MaxScanCalls == 3
MaxClicks == 2
MaxStarts == 2
MaxStatusInFlight == 1
MaxLateMs == 500
MaxWatchMs == 6000
MaxRowActions == 2
MaxClearStarts == 1
MaxSubmits == 2
MaxWalletPolls == 2
MaxMetricsPolls == 63
MaxMetricsInFlight == 2
MaxFrames == 3
MaxMoves == 2
MaxCountdownSecs == 4

(* Program constants *)
ScanBaseMs == 12000
ScanSpreadMs == 8000
CloseDelayMs == 900
MaxRetries == 2
RetryDelayMs == 150
CountdownTickMs == 300
BootPollMs == 2000
TickMs == 1000
SlowPollMs == 30000
FastPollMs == 1500
HistoryMax == 60
ConfettiPieces == 14

Min(a, b) == IF a < b THEN a ELSE b
Max(a, b) == IF a > b THEN a ELSE b
\* Math.round of the non-negative rational n / d
Round(n, d) == (2 * n + d) \div (2 * d)

-----------------------------------------------------------------------------
(* The page and the server's answers *)

Elements == {"overlay", "btn", "form", "bar", "status"}

Absent == <<>>

\* const steps, lines 54-60
steps ==
    <<"init_engine", "scan_network", "analyze_ports", "capture_vulns", "sync_results">>

\* 12000 + Math.floor(Math.random() * 8000): the ends and one inner value
TotalMsChoices == {ScanBaseMs, ScanBaseMs + ScanSpreadMs - 1}

\* time between two animation frames (frames stop while the tab is hidden)
FrameGaps == {4000, 8000}

NoLists == [d |-> <<>>, r |-> <<>>, a |-> <<>>]

\* payload === null is the record with isNull
NullPayload ==
    [isNull |-> TRUE, ok |-> FALSE, changed |-> 0, counts |-> Absent, wallet |-> Absent,
     lists |-> NoLists]

Body(ok, changed, counts, wallet, lists) ==
    [isNull |-> FALSE, ok |-> ok, changed |-> changed, counts |-> counts,
     wallet |-> wallet, lists |-> lists]

\* { ok:false } as the catch handlers build it
FailPayload == Body(FALSE, 0, Absent, Absent, NoLists)

\* JSON bodies the scan endpoint may answer with
ScanBodies ==
    { NullPayload,
      FailPayload,
      Body(FALSE, 2, <<3, 0>>, <<500, 900>>, [d |-> <<1, 2>>, r |-> <<>>, a |-> <<>>]),
      Body(TRUE, 0, Absent, Absent, NoLists),
      Body(TRUE, 2, <<3, 1>>, <<500, 900>>, [d |-> <<1, 2>>, r |-> <<3>>, a |-> <<>>]) }

\* how a fetch settles: a JSON body, a body r.json() rejects, or a rejected fetch
ScanResponses ==
    [kind : {"json"}, body : ScanBodies]
        \cup {[kind |-> "nonjson", body |-> NullPayload], [kind |-> "reject", body |-> NullPayload]}

\* Math.pow(pct / 100, 0.8) * 100, toFixed(1), in 1/10 percent, for pct = 0..100
EasedTenths ==
    << 0, 25, 44, 60, 76, 91, 105, 119, 133, 146, 158, 171, 183, 196, 207, 219, 231,
       242, 254, 265, 276, 287, 298, 309, 319, 330, 340, 351, 361, 371, 382, 392, 402,
       412, 422, 432, 442, 451, 461, 471, 480, 490, 500, 509, 519, 528, 537, 547, 556,
       565, 574, 584, 593, 602, 611, 620, 629, 638, 647, 656, 665, 673, 682, 691, 700,
       708, 717, 726, 735, 743, 752, 760, 769, 777, 786, 794, 803, 811, 820, 828, 837,
       845, 853, 862, 870, 878, 886, 895, 903, 911, 919, 927, 935, 944, 952, 960, 968,
       976, 984, 992, 1000 >>

easedPct(pct) == EasedTenths[pct + 1]

-----------------------------------------------------------------------------
(* user_dashboard.js: the facade's mutation entry points *)

\* updateHeaderCounts: rewrites the header text from the two counts
updateHeaderCounts(h, counts) == counts

\* updateWallet: if(!wallet) return; otherwise both fields are rewritten
updateWallet(w, wallet) == IF wallet = Absent THEN w ELSE wallet

\* VM.updateCountsWallet(payload): header counts after the call
CountsAfter(h, p) ==
    IF p.isNull THEN h
    ELSE IF p.counts # Absent THEN updateHeaderCounts(h, p.counts) ELSE h

\* VM.updateCountsWallet(payload): wallet fields after the call
WalletAfter(w, p) ==
    IF p.isNull THEN w
    ELSE IF p.wallet # Absent THEN updateWallet(w, p.wallet) ELSE w

\* renderAll(discovered, resolved, archived): the new content of #ports-body
renderAll(d, r, a) ==
    IF Len(d) = 0 /\ Len(r) = 0 /\ Len(a) = 0
    THEN [empty |-> TRUE, rows |-> <<>>]
    ELSE [empty |-> FALSE,
          rows |-> [i \in 1..Len(d) |-> <<d[i], "discovered">>]
                   \o [i \in 1..Len(r) |-> <<r[i], "resolved">>]
                   \o [i \in 1..Len(a) |-> <<a[i], "archived">>]]

-----------------------------------------------------------------------------
(* scan_animation.js *)

Log0 == [calls |-> 0, accepted |-> 0, requests |-> 0, finalized |-> 0, closed |-> 0,
         enables |-> 0, joinedEarly |-> FALSE, respKind |-> "none", respOk |-> FALSE]

\* the guard of line 27 left out
ScanNeverRejected == FALSE

\* line 27: if (VM.state.scanInFlight) return;
ScanRejected == scanInFlight

\* a payload counted as successful whenever it is an object
PayloadTruthy(p) == ~p.isNull

\* payload && payload.ok
PayloadOk(p) == ~p.isNull /\ p.ok

\* const changed = (payload && payload.changed) ? payload.changed : 0
Changed(p) == IF ~p.isNull /\ p.changed # 0 THEN p.changed ELSE 0

\* lines 84-92: the final status text
FinalStatus(p) ==
    IF PayloadOk(p)
    THEN (IF Changed(p) > 0 THEN "found_ports" ELSE "no_vulns")
    ELSE "retry_message"

\* the .then/.catch chain of lines 49-51: what `payload` becomes when the fetch settles
SettledPayload(resp) ==
    IF resp.kind = "json" THEN resp.body ELSE FailPayload

\* lines 81-112: the reaction registered by Promise.resolve(req).finally
Finalize(p) ==
    /\ statusText' = (IF "status" \in dom THEN FinalStatus(p) ELSE statusText)
    /\ hdrCounts' = (IF PayloadOk(p) THEN CountsAfter(hdrCounts, p) ELSE hdrCounts)
    /\ walletView' = (IF PayloadOk(p) THEN WalletAfter(walletView, p) ELSE walletView)
    /\ portsBody' = (IF PayloadOk(p)
                     THEN renderAll(p.lists.d, p.lists.r, p.lists.a)
                     ELSE portsBody)
    /\ barWidth' = (IF "bar" \in dom THEN 1000 ELSE barWidth)
    /\ barSnap' = (IF "bar" \in dom THEN TRUE ELSE barSnap)
    /\ scanPc' = "closing"

\* lines 26-51 and 116: doScan, from a click on the button or a submit of the form
doScan ==
    /\ scanLog.calls < MaxScanCalls
    /\ \/ "btn" \in dom /\ ~btnDisabled
       \/ "form" \in dom
    /\ IF ScanRejected
       THEN /\ scanLog' = [scanLog EXCEPT !.calls = @ + 1]
            /\ UNCHANGED <<pageVars, scanInFlight, overlay, btnDisabled, barWidth, barSnap,
                           statusText, scanPc, totalMs, elapsed, stepIdx, payload,
                           scanOutstanding>>
       ELSE /\ scanInFlight' = TRUE
            /\ overlay' = (IF "overlay" \in dom THEN "flex" ELSE overlay)
            /\ btnDisabled' = (IF "btn" \in dom THEN TRUE ELSE btnDisabled)
            /\ barWidth' = (IF "bar" \in dom THEN 0 ELSE barWidth)
            /\ statusText' = (IF "status" \in dom THEN steps[1] ELSE statusText)
            /\ \E t \in TotalMsChoices : totalMs' = t
            /\ elapsed' = 0
            /\ payload' = NullPayload
            /\ scanOutstanding' = scanOutstanding + 1
            /\ stepIdx' = 0
            /\ scanPc' = "animating"
            /\ scanLog' = [scanLog EXCEPT !.calls = @ + 1, !.accepted = @ + 1,
                                          !.requests = @ + 1]
            /\ UNCHANGED <<pageVars, barSnap>>

\* lines 65-76: the part of tick(now) that draws the frame
TickDraw(e) ==
    /\ elapsed' = e
    /\ LET pct == Min(100, Round(e * 100, totalMs))
       IN  barWidth' = (IF "bar" \in dom THEN easedPct(pct) ELSE barWidth)
    /\ IF stepIdx < Len(steps) /\ 5 * e >= (stepIdx + 1) * totalMs
       THEN /\ statusText' = (IF "status" \in dom THEN steps[stepIdx + 1] ELSE statusText)
            /\ stepIdx' = stepIdx + 1
       ELSE UNCHANGED <<statusText, stepIdx>>

\* the animation given up as soon as the response is in (a race instead of a join)
AnimationRace(e) == e < totalMs /\ scanOutstanding > 0

\* line 78: if (elapsed < totalMs) the next frame is requested
AnimationRunning(e) == e < totalMs

\* lines 65-114: one animation frame
tick ==
    /\ scanPc = "animating"
    /\ \E gap \in FrameGaps :
         LET e == elapsed + gap IN
         IF AnimationRunning(e)
         THEN /\ TickDraw(e)
              /\ UNCHANGED <<pageVars, scanInFlight, overlay, btnDisabled, barSnap, scanPc,
                             totalMs, payload, scanOutstanding, scanLog>>
         ELSE IF scanOutstanding = 0
         THEN \* the request has settled: the finally reaction runs in this task's microtasks
              /\ elapsed' = e
              /\ stepIdx' = (IF stepIdx < Len(steps) /\ 5 * e >= (stepIdx + 1) * totalMs
                             THEN stepIdx + 1 ELSE stepIdx)
              /\ Finalize(payload)
              /\ scanLog' = [scanLog EXCEPT !.finalized = @ + 1, !.joinedEarly = TRUE]
              /\ UNCHANGED <<dom, scanInFlight, overlay, btnDisabled, totalMs, payload,
                             scanOutstanding>>
         ELSE /\ TickDraw(e)
              /\ scanPc' = "joining"
              /\ UNCHANGED <<pageVars, scanInFlight, overlay, btnDisabled, barSnap,
                             totalMs, payload, scanOutstanding, scanLog>>

\* lines 45-51 (and 81 when the animation is over): the scan request settles
scanSettles ==
    /\ scanOutstanding > 0
    /\ \E resp \in ScanResponses :
         LET p == SettledPayload(resp) IN
         /\ payload' = p
         /\ scanOutstanding' = scanOutstanding - 1
         /\ IF scanPc = "joining"
            THEN /\ Finalize(p)
                 /\ scanLog' = [scanLog EXCEPT !.finalized = @ + 1, !.joinedEarly = FALSE,
                                               !.respKind = resp.kind,
                                               !.respOk = resp.body.ok]
                 /\ UNCHANGED <<dom, scanInFlight, overlay, btnDisabled, totalMs, elapsed,
                                stepIdx>>
            ELSE /\ scanLog' = [scanLog EXCEPT !.respKind = resp.kind,
                                               !.respOk = resp.body.ok]
                 /\ UNCHANGED <<pageVars, scanInFlight, overlay, btnDisabled, barWidth,
                                barSnap, statusText, scanPc, totalMs, elapsed, stepIdx>>

\* the closing timeout with the trigger left disabled
closeOverlayKeepsTrigger ==
    /\ scanPc = "closing"
    /\ overlay' = (IF "overlay" \in dom THEN "none" ELSE overlay)
    /\ scanInFlight' = FALSE
    /\ scanPc' = "idle"
    /\ scanLog' = [scanLog EXCEPT !.closed = @ + 1]
    /\ UNCHANGED <<pageVars, btnDisabled, barWidth, barSnap, statusText, totalMs, elapsed,
                   stepIdx, payload, scanOutstanding>>

\* the closing timeout with the flag left set
closeOverlayKeepsFlag ==
    /\ scanPc = "closing"
    /\ overlay' = (IF "overlay" \in dom THEN "none" ELSE overlay)
    /\ btnDisabled' = (IF "btn" \in dom THEN FALSE ELSE btnDisabled)
    /\ scanPc' = "idle"
    /\ scanLog' = [scanLog EXCEPT !.closed = @ + 1,
                                  !.enables = IF "btn" \in dom THEN @ + 1 ELSE @]
    /\ UNCHANGED <<pageVars, scanInFlight, barWidth, barSnap, statusText, totalMs, elapsed,
                   stepIdx, payload, scanOutstanding>>

\* lines 107-111: the closing timeout
closeOverlay ==
    /\ scanPc = "closing"
    /\ overlay' = (IF "overlay" \in dom THEN "none" ELSE overlay)
    /\ btnDisabled' = (IF "btn" \in dom THEN FALSE ELSE btnDisabled)
    /\ scanInFlight' = FALSE
    /\ scanPc' = "idle"
    /\ scanLog' = [scanLog EXCEPT !.closed = @ + 1,
                                  !.enables = IF "btn" \in dom THEN @ + 1 ELSE @]
    /\ UNCHANGED <<pageVars, barWidth, barSnap, statusText, totalMs, elapsed, stepIdx,
                   payload, scanOutstanding>>

InitPage ==
    /\ hdrCounts = <<1, 0>>
    /\ walletView = <<100, 100>>
    /\ portsBody = renderAll(<<1>>, <<>>, <<>>)

InitScan ==
    /\ scanInFlight = FALSE
    /\ overlay = "none"
    /\ btnDisabled = FALSE
    /\ barWidth = 0
    /\ barSnap = FALSE
    /\ statusText = ""
    /\ scanPc = "idle"
    /\ totalMs = ScanBaseMs
    /\ elapsed = 0
    /\ stepIdx = 0
    /\ payload = NullPayload
    /\ scanOutstanding = 0
    /\ scanLog = Log0

-----------------------------------------------------------------------------
(* resolve_ports.js *)

\* row keys: data-row-id, which rowHtml sets to the port id
Rows == {"p1", "p2"}

\* whole seconds a countdown may be asked to run
CountdownSecs == {1, 2}

\* time between two runs of the interval callback: on time, or late
TickGaps == {CountdownTickMs, 3 * CountdownTickMs}

\* what the remaining endpoint may answer: a JSON body (remaining given, or null body),
\* or a failure (non-2xx status, rejected fetch, body that is not JSON)
PrimingResponses ==
    [kind : {"json"}, remaining : {-1, 0} \cup CountdownSecs]
        \cup {[kind |-> "null", remaining |-> 0], [kind |-> "fail", remaining |-> 0]}

\* what one resolve request may be answered with
ResolveResponses ==
    [status : {200}, body : {"ok", "fail", "null", "nonjson"}, secs : {0}]
        \cup [status : {200}, body : {"too_early"}, secs : {0, 1}]
        \cup [status : {409, 423, 500}, body : {"fail"}, secs : {0}]
        \cup {[status |-> 0, body |-> "reject", secs |-> 0]}

\* the wallet / counts a successful resolve answer carries
ResolvePayload == Body(TRUE, 0, <<0, 1>>, <<600, 1000>>, NoLists)

NewFlow(r) ==
    [row |-> r, pc |-> "priming", primed |-> "pending", call |-> 0, attempt |-> 0,
     backoff |-> 0, callReqs |-> 0, got409 |-> 0, last |-> "none", key |-> <<>>,
     cds |-> 0, cdsDone |-> 0, cdTotal |-> 0, cdElapsed |-> 0, left |-> 0,
     early |-> FALSE, shown |-> FALSE, out |-> "none"]

\* a click that is over keeps what it did, not the locals of its closures
Over(fl, pc, out) ==
    [fl EXCEPT !.pc = pc, !.out = out, !.attempt = 0, !.backoff = 0, !.callReqs = 0,
               !.key = <<>>, !.cdTotal = 0, !.cdElapsed = 0, !.left = 0]

\* the key of the earlier attempt sent again with a retry
idempotencyKeyReused(f, fl, attempt) ==
    IF attempt > 0 THEN fl.key ELSE <<f, fl.call + 1, 1>>

\* idempotencyKey(), user_dashboard.js 106-109, as apiResolve calls it in line 58: a
\* random UUID (or time plus random digits), a value no other call of it returns; the
\* value is named by the call that made it: click f, its call-th apiResolve invocation,
\* request attempt + 1 of that invocation
idempotencyKey(f, fl, attempt) ==
    IF attempt > 0 THEN <<f, fl.call, attempt + 1>> ELSE <<f, fl.call + 1, 1>>

\* three retries allowed instead of two
MayRetryThrice(status, attempt) == status \in {409, 423} /\ attempt < MaxRetries + 1

\* line 69: (r.status === 409 || r.status === 423) && attempt < 2
MayRetry(status, attempt) == status \in {409, 423} /\ attempt < MaxRetries

\* line 70: 150 * (attempt + 1)
BackoffMs(attempt) == RetryDelayMs * (attempt + 1)

\* lines 41-47: stopTimerForRow, as the change to the clicks: clearInterval ends the
\* countdown of the click whose interval the map holds ...
StopFlows(fls, tm, r) ==
    [i \in DOMAIN fls |->
        IF tm[r] = i /\ fls[i].pc = "countdown" THEN Over(fls[i], "cancelled", "none")
        ELSE fls[i]]

\* the whole map emptied instead of one key removed
StopTimersAll(tm, r) == [q \in DOMAIN tm |-> 0]

\* ... and as the change to the map
StopTimers(tm, r) == [tm EXCEPT ![r] = 0]

\* lines 52-62: apiResolve(portId, attempt) sends one request, with a key made for it
SendResolve(f, fl, attempt) ==
    [fl EXCEPT !.pc = "resolving",
               !.call = IF attempt = 0 THEN @ + 1 ELSE @,
               !.attempt = attempt, !.backoff = 0,
               !.callReqs = IF attempt = 0 THEN 1 ELSE @ + 1,
               !.got409 = IF attempt = 0 THEN 0 ELSE @,
               !.key = idempotencyKey(f, fl, attempt)]

\* lines 146-177: startMiniCountdown, as the change to the click that starts it
StartCountdown(fl, seconds) ==
    [fl EXCEPT !.pc = "countdown", !.cdTotal = Max(0, seconds), !.cdElapsed = 0,
               !.left = Max(0, seconds), !.cds = @ + 1, !.shown = TRUE,
               !.attempt = 0, !.backoff = 0, !.callReqs = 0, !.got409 = 0, !.key = <<>>]

\* a countdown started even when no wait is asked for
WaitsAlways(remaining) == remaining >= 0

\* the wait asked for by the priming call ignored
WaitsNever(remaining) == FALSE

\* line 196: remaining <= 0 is the immediate path, anything else waits first
WaitsFirst(remaining) == remaining > 0

\* the row marked resolved by the click itself
handleResolveOptimistic(r) ==
    /\ Len(flows) < MaxClicks
    /\ rowControls[r]
    /\ flows' = Append(StopFlows(flows, rowTimers, r), NewFlow(r))
    /\ rowTimers' = StopTimers(rowTimers, r)
    /\ rowStatus' = [rowStatus EXCEPT ![r] = "resolved"]
    /\ UNCHANGED <<rowControls, miniHidden, hdrCounts, walletView>>

\* lines 182-193: handleResolve up to the priming request
handleResolve(r) ==
    /\ Len(flows) < MaxClicks
    /\ rowControls[r]
    /\ flows' = Append(StopFlows(flows, rowTimers, r), NewFlow(r))
    /\ rowTimers' = StopTimers(rowTimers, r)
    /\ UNCHANGED <<rowStatus, rowControls, miniHidden, hdrCounts, walletView>>

\* the new interval registered without stopTimerForRow (line 155 left out)
startMiniCountdownKeepsPrior(f, fl, seconds) ==
    /\ flows' = [flows EXCEPT ![f] = StartCountdown(fl, seconds)]
    /\ rowTimers' = [rowTimers EXCEPT ![fl.row] = f]
    /\ miniHidden' = [miniHidden EXCEPT ![fl.row] = IF rowControls[fl.row] THEN FALSE ELSE @]
    /\ UNCHANGED <<rowStatus, rowControls, hdrCounts, walletView>>

\* startMiniCountdown(row, rowId, seconds, onDone) called by click f
startMiniCountdown(f, fl, seconds) ==
    /\ flows' = [StopFlows(flows, rowTimers, fl.row) EXCEPT ![f] = StartCountdown(fl, seconds)]
    /\ rowTimers' = [rowTimers EXCEPT ![fl.row] = f]
    /\ miniHidden' = [miniHidden EXCEPT ![fl.row] = IF rowControls[fl.row] THEN FALSE ELSE @]
    /\ UNCHANGED <<rowStatus, rowControls, hdrCounts, walletView>>

\* a failed priming request ending the click without a resolve request
primingSettlesGivesUp(f) ==
    /\ f \in DOMAIN flows
    /\ flows[f].pc = "priming"
    /\ \E resp \in PrimingResponses :
         LET remaining == IF resp.kind = "json" THEN Max(0, resp.remaining) ELSE 0
             fl == [flows[f] EXCEPT
                      !.primed = IF resp.kind = "fail" THEN "failed"
                                 ELSE IF resp.kind = "json" /\ resp.remaining > 0 THEN "wait"
                                 ELSE "zero"]
         IN  IF resp.kind = "fail"
             THEN /\ flows' = [flows EXCEPT ![f] = Over(fl, "done", "failed")]
                  /\ miniHidden' = [miniHidden EXCEPT ![fl.row] = TRUE]
                  /\ UNCHANGED <<rowTimers, rowStatus, rowControls, hdrCounts, walletView>>
             ELSE IF WaitsFirst(remaining)
             THEN startMiniCountdown(f, fl, remaining)
             ELSE /\ flows' = [flows EXCEPT ![f] = SendResolve(f, fl, 0)]
                  /\ UNCHANGED <<rowTimers, rowStatus, rowControls, miniHidden,
                                 hdrCounts, walletView>>

\* lines 193-197, 226-227 and 254-256: the priming request settles
primingSettles(f) ==
    /\ f \in DOMAIN flows
    /\ flows[f].pc = "priming"
    /\ \E resp \in PrimingResponses :
         LET remaining == IF resp.kind = "json" THEN Max(0, resp.remaining) ELSE 0
             fl == [flows[f] EXCEPT
                      !.primed = IF resp.kind = "fail" THEN "failed"
                                 ELSE IF resp.kind = "json" /\ resp.remaining > 0 THEN "wait"
                                 ELSE "zero"]
         IN  IF resp.kind # "fail" /\ WaitsFirst(remaining)
             THEN startMiniCountdown(f, fl, remaining)
             ELSE /\ flows' = [flows EXCEPT ![f] = SendResolve(f, fl, 0)]
                  /\ UNCHANGED <<rowTimers, rowStatus, rowControls, miniHidden,
                                 hdrCounts, walletView>>

\* lines 117-126: finalizeResolve(row, payload)
finalizeResolve(f, fl) ==
    /\ flows' = [flows EXCEPT ![f] = Over(fl, "done", "resolved")]
    /\ miniHidden' = [miniHidden EXCEPT ![fl.row] = TRUE]
    /\ rowStatus' = [rowStatus EXCEPT ![fl.row] = "resolved"]
    /\ rowControls' = [rowControls EXCEPT ![fl.row] = FALSE]
    /\ hdrCounts' = CountsAfter(hdrCounts, ResolvePayload)
    /\ walletView' = WalletAfter(walletView, ResolvePayload)
    /\ UNCHANGED rowTimers

\* the failure branches leaving the indicator as it is
hideMiniLeavesShown(f, fl) ==
    /\ flows' = [flows EXCEPT ![f] = Over(fl, "done", "failed")]
    /\ UNCHANGED <<rowTimers, rowStatus, rowControls, miniHidden, hdrCounts, walletView>>

\* the else / catch branches: the mini indicator is hidden and the click is over
hideMini(f, fl) ==
    /\ flows' = [flows EXCEPT ![f] = Over(fl, "done", "failed")]
    /\ miniHidden' = [miniHidden EXCEPT ![fl.row] = TRUE]
    /\ UNCHANGED <<rowTimers, rowStatus, rowControls, hdrCounts, walletView>>

\* the value of a retried request lost (apiResolve called again without `return`)
resolveYieldsFirstOnly(f, fl, kind, secs) ==
    IF kind = "ok" /\ fl.attempt = 0 THEN finalizeResolve(f, fl)
    ELSE IF kind = "too_early" /\ secs > 0 /\ fl.call = 1 /\ fl.attempt = 0
    THEN startMiniCountdown(f, fl, secs)
    ELSE hideMini(f, fl)

\* a too_early answer taken as a failure like any other
resolveYieldsEarlyFails(f, fl, kind, secs) ==
    IF kind = "ok" THEN finalizeResolve(f, fl) ELSE hideMini(f, fl)

\* every too_early answer starting another countdown
resolveYieldsWaitsAgain(f, fl, kind, secs) ==
    IF kind = "ok" THEN finalizeResolve(f, fl)
    ELSE IF kind = "too_early" /\ secs > 0
    THEN startMiniCountdown(f, fl, secs)
    ELSE hideMini(f, fl)

\* lines 198-218 (and the copies 228-248, 256-279): what handleResolve does with the
\* value apiResolve yields: kind is "ok", "too_early" or anything else; the reaction to
\* the second call of a click (p2) has no too_early branch
resolveYields(f, fl, kind, secs) ==
    IF kind = "ok" THEN finalizeResolve(f, fl)
    ELSE IF kind = "too_early" /\ secs > 0 /\ fl.call = 1
    THEN startMiniCountdown(f, fl, secs)
    ELSE hideMini(f, fl)

\* how a response is remembered in the click's record; too_early is the answer that
\* lines 201, 231 and 262 take as such: error too_early with seconds_remaining > 0
ResponseClass(resp) ==
    IF resp.status = 0 \/ (resp.status = 200 /\ resp.body = "nonjson") THEN "reject"
    ELSE IF resp.status = 200
    THEN (IF resp.body = "ok" THEN "ok"
          ELSE IF resp.body = "too_early" /\ resp.secs > 0 THEN "too_early"
          ELSE "other")
    ELSE IF resp.status \in {409, 423} THEN "conflict"
    ELSE "http_error"

\* lines 63-74 with the reactions of handleResolve: one resolve request settles
resolveSettles(f) ==
    /\ f \in DOMAIN flows
    /\ flows[f].pc = "resolving"
    /\ \E resp \in ResolveResponses :
         LET fl == [flows[f] EXCEPT
                      !.last = ResponseClass(resp),
                      !.got409 = IF resp.status = 409 THEN @ + 1 ELSE @]
         IN
         IF resp.status = 0 \/ (resp.status = 200 /\ resp.body = "nonjson")
         THEN hideMini(f, fl)                   \* fetch or r.json() rejects: .catch
         ELSE IF resp.status = 200
         THEN resolveYields(f, fl, resp.body, resp.secs)
         ELSE IF MayRetry(resp.status, fl.attempt)
         THEN /\ flows' = [flows EXCEPT
                             ![f] = [fl EXCEPT !.pc = "backoff",
                                               !.backoff = BackoffMs(fl.attempt)]]
              /\ UNCHANGED <<rowTimers, rowStatus, rowControls, miniHidden,
                             hdrCounts, walletView>>
         ELSE resolveYields(f, fl, "http_error", 0)

\* lines 70-71: the backoff timeout fires and apiResolve calls itself
backoffElapsed(f) ==
    /\ f \in DOMAIN flows
    /\ flows[f].pc = "backoff"
    /\ flows' = [flows EXCEPT ![f] = SendResolve(f, flows[f], flows[f].attempt + 1)]
    /\ UNCHANGED <<rowTimers, rowStatus, rowControls, miniHidden, hdrCounts, walletView>>

\* the remaining seconds rounded to the nearest second instead of floored
countdownTickRounds(f) ==
    /\ f \in DOMAIN flows
    /\ flows[f].pc = "countdown"
    /\ \E gap \in TickGaps :
         LET e == flows[f].cdElapsed + gap
             total == flows[f].cdTotal
             left == Max(0, total - ((e + 500) \div 1000))
         IN  IF left <= 0
             THEN /\ flows' = [flows EXCEPT
                                 ![f] = SendResolve(f,
                                          [flows[f] EXCEPT !.cdsDone = @ + 1, !.left = 0,
                                                           !.cdElapsed = 0, !.cdTotal = 0,
                                                           !.early = @ \/ e < 1000 * total],
                                          0)]
                  /\ rowTimers' = [rowTimers EXCEPT ![flows[f].row] = 0]
             ELSE /\ flows' = [flows EXCEPT ![f].cdElapsed = e, ![f].left = left]
                  /\ UNCHANGED rowTimers
    /\ UNCHANGED <<rowStatus, rowControls, miniHidden, hdrCounts, walletView>>

\* onDone called as soon as less than a second is left
countdownTickEarly(f) ==
    /\ f \in DOMAIN flows
    /\ flows[f].pc = "countdown"
    /\ \E gap \in TickGaps :
         LET e == flows[f].cdElapsed + gap
             total == flows[f].cdTotal
             left == Max(0, total - ((e + 999) \div 1000))
         IN  IF left <= 0
             THEN /\ flows' = [flows EXCEPT
                                 ![f] = SendResolve(f,
                                          [flows[f] EXCEPT !.cdsDone = @ + 1, !.left = 0,
                                                           !.cdElapsed = 0, !.cdTotal = 0,
                                                           !.early = @ \/ e < 1000 * total],
                                          0)]
                  /\ rowTimers' = [rowTimers EXCEPT ![flows[f].row] = 0]
             ELSE /\ flows' = [flows EXCEPT ![f].cdElapsed = e, ![f].left = left]
                  /\ UNCHANGED rowTimers
    /\ UNCHANGED <<rowStatus, rowControls, miniHidden, hdrCounts, walletView>>

\* lines 160-174: one run of the interval callback of the countdown of click f
countdownTick(f) ==
    /\ f \in DOMAIN flows
    /\ flows[f].pc = "countdown"
    /\ \E gap \in TickGaps :
         LET e == flows[f].cdElapsed + gap
             total == flows[f].cdTotal
             left == Max(0, total - (e \div 1000))
         IN  IF left <= 0
             THEN /\ flows' = [flows EXCEPT
                                 ![f] = SendResolve(f,
                                          [flows[f] EXCEPT !.cdsDone = @ + 1, !.left = 0,
                                                           !.cdElapsed = 0, !.cdTotal = 0,
                                                           !.early = @ \/ e < 1000 * total],
                                          0)]
                  /\ rowTimers' = [rowTimers EXCEPT ![flows[f].row] = 0]
             ELSE /\ flows' = [flows EXCEPT ![f].cdElapsed = e, ![f].left = left]
                  /\ UNCHANGED rowTimers
    /\ UNCHANGED <<rowStatus, rowControls, miniHidden, hdrCounts, walletView>>

InitResolve ==
    /\ rowTimers = [r \in Rows |-> 0]
    /\ flows = <<>>
    /\ rowStatus = [r \in Rows |-> "discovered"]
    /\ rowControls = [r \in Rows |-> TRUE]
    /\ miniHidden = [r \in Rows |-> TRUE]

\* ---- archive / unarchive (lines 77-101, 128-144, 290-325)

\* what an archive or unarchive request may be answered with: the fields of a scan answer
ArchiveResponses == ScanResponses

\* any JSON object taken as a success
DataAny(resp) == resp.kind = "json" /\ ~resp.body.isNull

\* data && data.ok, lines 302 and 319
DataOk(resp) == resp.kind = "json" /\ ~resp.body.isNull /\ resp.body.ok

\* the table shows a row with an unarchive form: a row rendered as archived by rowHtml
Unarchivable == \E i \in DOMAIN portsBody.rows : portsBody.rows[i][2] = "archived"

\* clicks on resolve, archive and unarchive buttons so far
RowActions == Len(flows) + rowLog.archives + rowLog.unarchives

\* an archive click that leaves the row's countdown running
handleArchiveKeepsTimer(r) ==
    /\ rowsLive
    /\ rowControls[r]
    /\ UNCHANGED <<flows, rowTimers>>
    /\ archOut' = [archOut EXCEPT ![r] = @ + 1]
    /\ rowLog' = [rowLog EXCEPT !.archives = @ + 1,
                                !.spared = @ \/ \E q \in Rows \ {r} : rowTimers[q] # 0]
    /\ UNCHANGED <<rowStatus, rowControls, miniHidden, hdrCounts, walletView, portsBody,
                   unarchOut, rowsLive>>

\* lines 290-301: handleArchive up to the request; the archive form sits in .row-actions
handleArchive(r) ==
    /\ rowsLive
    /\ rowControls[r]
    /\ flows' = StopFlows(flows, rowTimers, r)
    /\ rowTimers' = StopTimers(rowTimers, r)
    /\ archOut' = [archOut EXCEPT ![r] = @ + 1]
    /\ rowLog' = [rowLog EXCEPT !.archives = @ + 1,
                                !.spared = @ \/ \E q \in Rows \ {r} : rowTimers[q] # 0]
    /\ UNCHANGED <<rowStatus, rowControls, miniHidden, hdrCounts, walletView, portsBody,
                   unarchOut, rowsLive>>

\* lines 138-144: refreshFromPayload(payload), for a payload with the three lists
refreshFromPayload(p) ==
    /\ portsBody' = renderAll(p.lists.d, p.lists.r, p.lists.a)
    /\ rowsLive' = FALSE
    /\ hdrCounts' = CountsAfter(hdrCounts, p)
    /\ walletView' = WalletAfter(walletView, p)

\* lines 128-136: finalizeArchive(row, payload)
finalizeArchive(r) ==
    /\ miniHidden' = [miniHidden EXCEPT ![r] = TRUE]
    /\ rowStatus' = [rowStatus EXCEPT ![r] = "archived"]
    /\ rowControls' = [rowControls EXCEPT ![r] = FALSE]

\* lines 301-308: the archive request of row r settles
archiveSettles(r) ==
    /\ archOut[r] > 0
    /\ archOut' = [archOut EXCEPT ![r] = @ - 1]
    /\ \E resp \in ArchiveResponses :
         /\ rowLog' = [rowLog EXCEPT !.last = [op |-> "archive", resp |-> resp]]
         /\ IF DataOk(resp)
            THEN finalizeArchive(r) /\ refreshFromPayload(resp.body)
            ELSE UNCHANGED <<miniHidden, rowStatus, rowControls, portsBody, rowsLive,
                             hdrCounts, walletView>>
    /\ UNCHANGED <<flows, rowTimers, unarchOut>>

\* lines 311-317: handleUnarchive up to the request
handleUnarchive ==
    /\ Unarchivable
    /\ unarchOut' = unarchOut + 1
    /\ rowLog' = [rowLog EXCEPT !.unarchives = @ + 1]
    /\ UNCHANGED <<resolveVars, hdrCounts, walletView, portsBody, archOut, rowsLive>>

\* lines 318-324: the unarchive request settles
unarchiveSettles ==
    /\ unarchOut > 0
    /\ unarchOut' = unarchOut - 1
    /\ \E resp \in ArchiveResponses :
         /\ rowLog' = [rowLog EXCEPT !.last = [op |-> "unarchive", resp |-> resp]]
         /\ IF DataOk(resp)
            THEN refreshFromPayload(resp.body)
            ELSE UNCHANGED <<portsBody, rowsLive, hdrCounts, walletView>>
    /\ UNCHANGED <<flows, rowTimers, rowStatus, rowControls, miniHidden, archOut>>

InitArchive ==
    /\ archOut = [r \in Rows |-> 0]
    /\ unarchOut = 0
    /\ rowsLive = TRUE
    /\ rowLog = [archives |-> 0, unarchives |-> 0, spared |-> FALSE,
                 last |-> [op |-> "none", resp |-> [kind |-> "reject", body |-> NullPayload]]]

\* a page loaded with the discovered rows p1 (port 1), p2 (port 2) and an archived row
InitRows ==
    /\ hdrCounts = <<2, 0>>
    /\ walletView = <<100, 100>>
    /\ portsBody = renderAll(<<1, 2>>, <<>>, <<3>>)

-----------------------------------------------------------------------------
(* news_search.js *)

\* the resolution of the clock of this model: all the delays of the script are multiples
TimeStepMs == 500

\* bootstrap.job || null, body.job || null: no job
NoJob == [status |-> "null", dur |-> 0, dated |-> FALSE]

\* a job object: dur is eta - started_at; dated says that started_at and eta parse to
\* finite times
JobOf(status, dur, dated) == [status |-> status, dur |-> dur, dated |-> dated]

\* eta - started_at of the jobs the backend creates
JobDurations == {3000, 10000}

\* the jobs a start request may create: with usable dates, or without
NewJobs == {JobOf("in_progress", d, TRUE) : d \in JobDurations}
               \cup {JobOf("in_progress", 0, FALSE)}

\* how a start or a status request is answered: 200 with body.ok, or anything else
\* (another status, ok:false, a body that is not JSON, a rejected fetch)
NewsResponses == {"ok", "fail"}

\* a timer handle: armed, and due
Armed(t) == t # <<>>
Due(t) == Armed(t) /\ t[1] <= 0

\* the script's own state, as the functions below change it
Client == [job |-> job, tickTimer |-> tickTimer, pollTimer |-> pollTimer,
           ui |-> newsUI, log |-> newsLog]

SetClient(c) ==
    /\ job' = c.job
    /\ tickTimer' = c.tickTimer
    /\ pollTimer' = c.pollTimer
    /\ newsUI' = c.ui
    /\ newsLog' = c.log

\* the observation of what the last start or status answer reported
Answered(c, what) == [c EXCEPT !.log.answer = what]

\* lines 206-210: scheduleStatusFetch: clearTimeout(pollTimer), then a new timeout
scheduleStatusFetch(c, delayMs) ==
    [c EXCEPT !.pollTimer = <<IF delayMs = 0 THEN SlowPollMs ELSE delayMs>>,
              !.log.polls = (IF Armed(c.pollTimer) THEN @ - 1 ELSE @) + 1]

\* lines 159-169: formatRemaining, as <<caption, minutes, seconds>>
formatRemaining(totalSeconds) ==
    IF totalSeconds <= 0
    THEN <<"finalizing", 0, 0>>
    ELSE <<"remaining", totalSeconds \div 60, totalSeconds % 60>>

\* resetUI without the status pill and the progress area
resetUIStale(c) ==
    [c EXCEPT !.ui.btnDisabled = FALSE, !.ui.fill = 0, !.ui.timer = <<"", 0, 0>>,
              !.ui.resultHidden = TRUE]

\* lines 64-74: resetUI
resetUI(c) ==
    [c EXCEPT !.ui = [pill |-> "idle", btnDisabled |-> FALSE, progressHidden |-> TRUE,
                      fill |-> 0, timer |-> <<"", 0, 0>>, resultHidden |-> TRUE]]

\* lines 142-157: updateProgressUI, eta being job.eta - Date.now(); the width is in
\* 1/100 percent (toFixed(2))
updateProgressUI(c, eta) ==
    IF c.job.status # "in_progress"
    THEN c
    ELSE IF ~(c.job.dated /\ c.job.dur > 0)
    THEN c
    ELSE LET progress == Min(9900, Max(0, Round((c.job.dur - eta) * 10000, c.job.dur)))
             remainingMs == Max(0, eta)
             remainingSec == (remainingMs + 999) \div 1000
             c1 == [c EXCEPT !.ui.fill = progress,
                             !.ui.timer = formatRemaining(remainingSec)]
         IN  IF remainingSec <= 1
             THEN scheduleStatusFetch([c1 EXCEPT !.log.watching = TRUE], FastPollMs)
             ELSE c1

\* renderJob without clearInterval(tickTimer): the ticker that ran goes on running
renderJobKeepsTicker(c, newJob, eta) ==
    LET c0 == [c EXCEPT !.job = newJob, !.tickTimer = <<>>,
                        !.log.watching = FALSE, !.log.sinceDue = 0,
                        !.log.terminal = (newJob.status = "completed")]
    IN  CASE newJob.status = "in_progress" ->
               LET c1 == [c0 EXCEPT !.ui.btnDisabled = TRUE, !.ui.progressHidden = FALSE,
                                    !.ui.resultHidden = TRUE, !.ui.pill = "running"]
                   c2 == updateProgressUI(c1, eta)
                   c3 == [c2 EXCEPT !.tickTimer = <<TickMs>>, !.log.tickers = @ + 1]
               IN  scheduleStatusFetch(c3, SlowPollMs)
          [] newJob.status = "completed" ->
               [c0 EXCEPT !.ui = [pill |-> "done", btnDisabled |-> FALSE,
                                  progressHidden |-> FALSE, fill |-> 10000,
                                  timer |-> <<"done", 0, 0>>, resultHidden |-> FALSE]]
          [] OTHER -> resetUI(c0)

\* lines 76-112: renderJob(newJob)
renderJob(c, newJob, eta) ==
    LET c0 == [c EXCEPT !.job = newJob, !.tickTimer = <<>>,
                        !.log.tickers = IF Armed(c.tickTimer) THEN @ - 1 ELSE @,
                        !.log.watching = FALSE, !.log.sinceDue = 0,
                        !.log.terminal = (newJob.status = "completed")]
    IN  CASE newJob.status = "in_progress" ->
               LET c1 == [c0 EXCEPT !.ui.btnDisabled = TRUE, !.ui.progressHidden = FALSE,
                                    !.ui.resultHidden = TRUE, !.ui.pill = "running"]
                   c2 == updateProgressUI(c1, eta)
                   c3 == [c2 EXCEPT !.tickTimer = <<TickMs>>, !.log.tickers = @ + 1]
               IN  scheduleStatusFetch(c3, SlowPollMs)
          [] newJob.status = "completed" ->
               [c0 EXCEPT !.ui = [pill |-> "done", btnDisabled |-> FALSE,
                                  progressHidden |-> FALSE, fill |-> 10000,
                                  timer |-> <<"done", 0, 0>>, resultHidden |-> FALSE]]
          [] OTHER -> resetUI(c0)

\* the listener without the guard of lines 38-40
newsClickAlways ==
    /\ ~newsUI.btnDisabled
    /\ newsLog.starts < MaxStarts
    /\ newsUI' = [newsUI EXCEPT !.resultHidden = TRUE, !.pill = "running",
                                !.progressHidden = FALSE, !.fill = 300,
                                !.timer = <<"starting", 0, 0>>]
    /\ startOutstanding' = startOutstanding + 1
    /\ newsLog' = [newsLog EXCEPT !.starts = @ + 1]
    /\ UNCHANGED <<job, tickTimer, pollTimer, statusOutstanding, serverJob, etaIn>>

\* lines 36-43 and 114-130: a click on the button; startSearch unless a job is running
newsClick ==
    /\ ~newsUI.btnDisabled
    /\ newsLog.starts < MaxStarts
    /\ IF job.status = "in_progress"
       THEN /\ newsLog' = [newsLog EXCEPT !.refused = TRUE]
            /\ UNCHANGED <<newsUI, startOutstanding>>
       ELSE /\ newsUI' = [newsUI EXCEPT !.resultHidden = TRUE, !.pill = "running",
                                        !.progressHidden = FALSE, !.fill = 300,
                                        !.timer = <<"starting", 0, 0>>]
            /\ startOutstanding' = startOutstanding + 1
            /\ newsLog' = [newsLog EXCEPT !.starts = @ + 1]
    /\ UNCHANGED <<job, tickTimer, pollTimer, statusOutstanding, serverJob, etaIn>>

\* lines 131-139: the start request settles; the backend answers with the job it runs,
\* creating one when it runs none
startSettles ==
    /\ startOutstanding > 0
    /\ startOutstanding' = startOutstanding - 1
    /\ \E resp \in NewsResponses, created \in NewJobs, withJob \in BOOLEAN :
         IF resp = "ok" /\ withJob
         THEN LET fresh == serverJob.status # "in_progress"
                  j == IF fresh THEN created ELSE serverJob
                  eta == IF fresh THEN created.dur ELSE etaIn
              IN  /\ serverJob' = j
                  /\ etaIn' = eta
                  /\ SetClient(Answered(renderJob(Client, j, eta), j.status))
         ELSE /\ UNCHANGED <<serverJob, etaIn>>
              /\ SetClient(IF resp = "ok"
                           THEN Answered(renderJob(Client, NoJob, etaIn), "null")
                           ELSE Answered(resetUI(Client), "fail"))
    /\ UNCHANGED statusOutstanding

\* line 94: the interval callback runs updateProgressUI; the next run is due one
\* interval after this one was due, or after it ran
newsTick ==
    /\ Due(tickTimer)
    /\ \E next \in {TickMs, tickTimer[1] + TickMs} :
         SetClient([updateProgressUI(Client, etaIn) EXCEPT !.tickTimer = <<next>>])
    /\ UNCHANGED <<statusOutstanding, startOutstanding, serverJob, etaIn>>

\* lines 212-217: the poll timeout fires and fetchStatus sends the status request
fetchStatus ==
    /\ Due(pollTimer)
    /\ statusOutstanding < MaxStatusInFlight
    /\ pollTimer' = <<>>
    /\ statusOutstanding' = statusOutstanding + 1
    /\ newsLog' = [newsLog EXCEPT !.watching = FALSE, !.sinceDue = 0, !.polled = TRUE,
                                  !.polls = @ - 1]
    /\ UNCHANGED <<job, tickTimer, newsUI, startOutstanding, serverJob, etaIn>>

\* lines 218-229: the status request settles
statusSettles ==
    /\ statusOutstanding > 0
    /\ statusOutstanding' = statusOutstanding - 1
    /\ \E resp \in NewsResponses, withJob \in BOOLEAN :
         LET j == IF withJob THEN serverJob ELSE NoJob
             c1 == IF resp = "ok"
                   THEN Answered(renderJob(Client, j, etaIn), j.status)
                   ELSE Answered(Client, "fail")
         IN  SetClient(IF c1.job.status = "in_progress"
                       THEN scheduleStatusFetch(c1, SlowPollMs)
                       ELSE c1)
    /\ UNCHANGED <<startOutstanding, serverJob, etaIn>>

\* lines 15-16: the clear button as the page delivers it
IdleClearBtn == [disabled |-> FALSE, label |-> "label", restore |-> FALSE]

\* lines 232-253: a click on the clear button. Without endpoints.newsClear the job is
\* dropped locally (lines 233-237); with it the button is disabled and the clear request
\* is sent
handleClearClick ==
    /\ ~newsUI.resultHidden
    /\ ~clearBtn.disabled
    /\ IF ~newsClear
       THEN /\ SetClient([renderJob(Client, NoJob, etaIn) EXCEPT !.log.clears = "local"])
            /\ UNCHANGED <<clearOutstanding, clearBtn>>
       ELSE /\ clearBtn' = [clearBtn EXCEPT !.disabled = TRUE, !.label = "deleting"]
            /\ clearOutstanding' = clearOutstanding + 1
            /\ newsLog' = [newsLog EXCEPT !.clears = "sent"]
            /\ UNCHANGED <<job, tickTimer, pollTimer, newsUI>>
    /\ UNCHANGED <<statusOutstanding, startOutstanding, serverJob, etaIn, newsClear>>

\* lines 254-280: the clear request settles. Answered 200 with body.ok the backend has
\* deleted the job: renderJob(null), label "deleted", restored 1200 ms later; anything
\* else: label "failed", restored 1600 ms later
clearSettles ==
    /\ clearOutstanding > 0
    /\ clearOutstanding' = clearOutstanding - 1
    /\ \E resp \in NewsResponses :
         IF resp = "ok"
         THEN /\ serverJob' = NoJob
              /\ SetClient([renderJob(Client, NoJob, etaIn) EXCEPT !.log.clears = "ok"])
              /\ clearBtn' = [clearBtn EXCEPT !.label = "deleted", !.restore = TRUE]
         ELSE /\ newsLog' = [newsLog EXCEPT !.clears = "fail"]
              /\ clearBtn' = [clearBtn EXCEPT !.label = "failed", !.restore = TRUE]
              /\ UNCHANGED <<job, tickTimer, pollTimer, newsUI, serverJob>>
    /\ UNCHANGED <<statusOutstanding, startOutstanding, etaIn, newsClear>>

\* lines 268-271 and 275-278: the timeout that restores the clear button fires
clearRestore ==
    /\ clearBtn.restore
    /\ clearBtn' = IdleClearBtn
    /\ UNCHANGED <<job, tickTimer, pollTimer, newsUI, statusOutstanding, startOutstanding,
                   serverJob, etaIn, newsLog, newsClear, clearOutstanding>>

\* the backend finishes the job it runs
serverCompletes ==
    /\ serverJob.status = "in_progress"
    /\ serverJob' = [serverJob EXCEPT !.status = "completed"]
    /\ UNCHANGED <<job, tickTimer, pollTimer, newsUI, statusOutstanding, startOutstanding,
                   etaIn, newsLog>>

\* a timer after TimeStepMs more
Later(t) == IF Armed(t) THEN <<t[1] - TimeStepMs>> ELSE t

\* time advances; a timer callback runs when due or at most MaxLateMs after
timePasses ==
    /\ Armed(tickTimer) \/ Armed(pollTimer)
    /\ \A t \in {tickTimer, pollTimer} : Armed(t) => t[1] - TimeStepMs >= -MaxLateMs
    /\ tickTimer' = Later(tickTimer)
    /\ pollTimer' = Later(pollTimer)
    /\ etaIn' = Max(0, etaIn - TimeStepMs)
    /\ newsLog' = IF newsLog.watching
                  THEN [newsLog EXCEPT !.sinceDue = Min(MaxWatchMs, @ + TimeStepMs)]
                  ELSE newsLog
    /\ UNCHANGED <<job, newsUI, statusOutstanding, startOutstanding, serverJob>>

\* the script before lines 27-34 ran
BlankClient ==
    [job |-> NoJob, tickTimer |-> <<>>, pollTimer |-> <<>>,
     ui |-> [pill |-> "idle", btnDisabled |-> FALSE, progressHidden |-> TRUE,
             fill |-> 0, timer |-> <<"", 0, 0>>, resultHidden |-> TRUE],
     log |-> [starts |-> 0, watching |-> FALSE, sinceDue |-> 0, polled |-> FALSE,
              refused |-> FALSE, terminal |-> FALSE, answer |-> "none",
              clears |-> "none", tickers |-> 0, polls |-> 0]]

\* lines 27-34: renderJob(bootstrap.job), then scheduleStatusFetch(2000)
BootClient(j, eta) ==
    scheduleStatusFetch([renderJob(BlankClient, j, eta) EXCEPT !.log.terminal = FALSE],
                        BootPollMs)

\* the script loaded by a page whose bootstrap block j is the backend's job, eta ahead
BootNews(j, eta) ==
    LET c == BootClient(j, eta)
    IN  /\ job = c.job
        /\ tickTimer = c.tickTimer
        /\ pollTimer = c.pollTimer
        /\ newsUI = c.ui
        /\ newsLog = c.log
        /\ serverJob = j
        /\ etaIn = eta
        /\ statusOutstanding = 0
        /\ startOutstanding = 0
        /\ clearOutstanding = 0
        /\ clearBtn = IdleClearBtn

\* a page loaded with no job stored; getEndpoints() (user_dashboard.js 4-33) defines no
\* newsClear
InitNews == BootNews(NoJob, 0) /\ newsClear = FALSE

\* a page loaded with no job, with a finished one, or with a running one
InitAnyJob ==
    \/ BootNews(NoJob, 0)
    \/ \E d \in JobDurations : BootNews(JobOf("completed", d, TRUE), 0)
    \/ \E d \in JobDurations, eta \in {0, TickMs, 3 * TickMs} :
         BootNews(JobOf("in_progress", d, TRUE), eta)
    \/ BootNews(JobOf("in_progress", 0, FALSE), 0)

-----------------------------------------------------------------------------
(* user_dashboard.js: the withdrawal form and the wallet poll *)

\* lines 347-348: Number((amountInput.value || '').trim()), for a sequence of characters.
\* The result is NaN, an infinity, or the finite value m / 10^s written with the fewest
\* fraction digits. Number accepts the empty string (0), a signed decimal with optional
\* fraction and exponent, and a signed Infinity; a decimal exponent above 308 overflows
NumberOf(raw) ==
    LET RECURSIVE TrimLeft(_), TrimRight(_), DigitsEnd(_, _), DigitsValue(_, _), Pow10(_),
                  DigitCount(_), Finite(_, _)
        Digits == <<"0", "1", "2", "3", "4", "5", "6", "7", "8", "9">>
        IsDigit(c) == \E i \in 1..10 : Digits[i] = c
        TrimLeft(t) == IF t # <<>> /\ Head(t) = " " THEN TrimLeft(Tail(t)) ELSE t
        TrimRight(t) ==
            IF t # <<>> /\ t[Len(t)] = " " THEN TrimRight(SubSeq(t, 1, Len(t) - 1)) ELSE t
        DigitsEnd(t, i) == IF i <= Len(t) /\ IsDigit(t[i]) THEN DigitsEnd(t, i + 1) ELSE i
        DigitsValue(t, acc) ==
            IF t = <<>> THEN acc
            ELSE IF IsDigit(Head(t))
            THEN DigitsValue(Tail(t),
                             10 * acc + (CHOOSE i \in 1..10 : Digits[i] = Head(t)) - 1)
            ELSE DigitsValue(Tail(t), acc)
        Pow10(n) == IF n = 0 THEN 1 ELSE 10 * Pow10(n - 1)
        DigitCount(m) == IF m < 10 THEN 1 ELSE 1 + DigitCount(m \div 10)
        Finite(m, s) ==
            IF m = 0 THEN [kind |-> "num", m |-> 0, s |-> 0]
            ELSE IF s < 0 THEN Finite(m * Pow10(-s), 0)
            ELSE IF s > 0 /\ m % 10 = 0 THEN Finite(m \div 10, s - 1)
            ELSE [kind |-> "num", m |-> m, s |-> s]
        str == TrimRight(TrimLeft(raw))
        signed == str # <<>> /\ str[1] \in {"-", "+"}
        neg == str # <<>> /\ str[1] = "-"
        b == IF signed THEN Tail(str) ELSE str
        intEnd == DigitsEnd(b, 1)
        hasDot == intEnd <= Len(b) /\ b[intEnd] = "."
        fracEnd == IF hasDot THEN DigitsEnd(b, intEnd + 1) ELSE intEnd
        fracDigits == IF hasDot THEN fracEnd - (intEnd + 1) ELSE 0
        hasExp == fracEnd <= Len(b) /\ b[fracEnd] \in {"e", "E"}
        expSigned == hasExp /\ fracEnd + 1 <= Len(b) /\ b[fracEnd + 1] \in {"-", "+"}
        expStart == IF expSigned THEN fracEnd + 2 ELSE fracEnd + 1
        expEnd == IF hasExp THEN DigitsEnd(b, expStart) ELSE fracEnd
        expOk == ~hasExp \/ expEnd > expStart
        expAbs == IF hasExp /\ expOk
                  THEN DigitsValue(SubSeq(b, expStart, expEnd - 1), 0) ELSE 0
        exp == IF expSigned /\ b[fracEnd + 1] = "-" THEN -expAbs ELSE expAbs
        mant == DigitsValue(SubSeq(b, 1, fracEnd - 1), 0)
        wellFormed == (intEnd - 1) + fracDigits > 0 /\ expOk /\ expEnd = Len(b) + 1
    IN  IF str = <<>> THEN Finite(0, 0)
        ELSE IF b = <<"I", "n", "f", "i", "n", "i", "t", "y">>
        THEN [kind |-> "inf", m |-> IF neg THEN -1 ELSE 1, s |-> 0]
        ELSE IF ~wellFormed THEN [kind |-> "nan", m |-> 0, s |-> 0]
        ELSE IF mant = 0 THEN Finite(0, 0)
        ELSE IF DigitCount(mant) - fracDigits + exp > 308
        THEN [kind |-> "inf", m |-> IF neg THEN -1 ELSE 1, s |-> 0]
        ELSE Finite(IF neg THEN -mant ELSE mant, fracDigits - exp)

\* the test written as amt <= 0 alone, which NaN passes
AmountAcceptedUnlessNotPositive(amt) == amt.kind = "nan" \/ (amt.kind = "num" /\ amt.m > 0)

\* line 349: the amount passes !isFinite(amt) || amt <= 0
AmountAccepted(amt) == amt.kind = "num" /\ amt.m > 0

\* what the user may have typed into the amount field
RawAmounts ==
    { <<>>,
      <<" ", " ">>,
      <<"0">>,
      <<"0", ".", "0", "0">>,
      <<"-", "5">>,
      <<"2", "5", ".", "5", "0">>,
      <<" ", "1", "0", " ">>,
      <<"a", "b", "c">>,
      <<"1", "2", "a">>,
      <<"I", "n", "f", "i", "n", "i", "t", "y">>,
      <<"1", "e", "4", "0", "0">> }

\* the body of an answer of the withdraw or the wallet endpoint; withdrawals is the
\* summary pending_total, pending_count, recent[]
WBody(ok, counts, wallet, withdrawals) ==
    [isNull |-> FALSE, ok |-> ok, counts |-> counts, wallet |-> wallet,
     withdrawals |-> withdrawals]

\* the JSON body null
NullWBody ==
    [isNull |-> TRUE, ok |-> FALSE, counts |-> Absent, wallet |-> Absent,
     withdrawals |-> Absent]

\* how a withdraw or a wallet request settles: a status with a JSON body, a body r.json()
\* rejects, or a rejected fetch
DashResponses ==
    [kind : {"json"}, status : {200, 400},
     body : { NullWBody,
              WBody(FALSE, Absent, Absent, Absent),
              WBody(FALSE, Absent, <<40, 900>>, <<[total |-> 60, count |-> 1]>>),
              WBody(TRUE, Absent, <<40, 900>>, <<[total |-> 60, count |-> 1]>>),
              WBody(TRUE, <<5, 5>>, <<70, 900>>, Absent),
              WBody(TRUE, Absent, Absent, <<[total |-> 60, count |-> 1]>>) }]
        \cup {[kind |-> k, status |-> 200, body |-> NullWBody] : k \in {"nonjson", "reject"}}

\* line 368: status === 200 && body && body.ok
WithdrawOk(resp) ==
    resp.kind = "json" /\ resp.status = 200 /\ ~resp.body.isNull /\ resp.body.ok

\* the user edits the amount field
typeAmount ==
    /\ \E raw \in RawAmounts : amountValue' = raw
    /\ amountValue' # amountValue
    /\ UNCHANGED <<pageVars, wdBtnDisabled, wdOut, withdrawView, walletOut, dashLog>>

\* lines 343-365: the submit listener of the withdrawal form. A form whose submit button
\* is disabled is not submitted by the user
submitWithdraw ==
    /\ ~wdBtnDisabled
    /\ dashLog.submits < MaxSubmits
    /\ LET amt == NumberOf(amountValue)
       IN  IF ~AmountAccepted(amt)
           THEN /\ dashLog' = [dashLog EXCEPT !.submits = @ + 1, !.op = "refused"]
                /\ UNCHANGED <<wdBtnDisabled, wdOut>>
           ELSE /\ wdBtnDisabled' = TRUE
                /\ wdOut' = Append(wdOut, [amount_sar |-> <<amt.m, amt.s>>])
                /\ dashLog' = [dashLog EXCEPT !.submits = @ + 1, !.op = "sent",
                                              !.posts = @ + 1]
    /\ UNCHANGED <<pageVars, amountValue, withdrawView, walletOut>>

\* the button enabled again only by the success branch
reenableOnSuccess(resp) == IF WithdrawOk(resp) THEN FALSE ELSE wdBtnDisabled

\* line 384: .finally(() => { if (btn) btn.disabled = false; })
reenable(resp) == FALSE

\* lines 366-384: the withdraw request settles; lines 95-104 are updateWithdrawUI
withdrawSettles ==
    /\ wdOut # <<>>
    /\ wdOut' = Tail(wdOut)
    /\ \E resp \in DashResponses :
         /\ dashLog' = [dashLog EXCEPT !.op = "withdraw", !.resp = resp]
         /\ IF WithdrawOk(resp)
            THEN /\ hdrCounts' = (IF resp.body.wallet # Absent
                                  THEN CountsAfter(hdrCounts, resp.body) ELSE hdrCounts)
                 /\ walletView' = (IF resp.body.wallet # Absent
                                   THEN WalletAfter(walletView, resp.body) ELSE walletView)
                 /\ withdrawView' = (IF resp.body.withdrawals # Absent
                                     THEN resp.body.withdrawals ELSE withdrawView)
                 /\ amountValue' = <<>>
            ELSE UNCHANGED <<hdrCounts, walletView, withdrawView, amountValue>>
         /\ wdBtnDisabled' = reenable(resp)
    /\ UNCHANGED <<dom, portsBody, walletOut>>

\* line 245: data && data.ok && data.wallet
SnapshotOk(resp) ==
    resp.kind = "json" /\ ~resp.body.isNull /\ resp.body.ok /\ resp.body.wallet # Absent

\* the whole answer handed to VM.updateCountsWallet
SnapshotWhole(body) == body

\* line 246: the payload handed on is { wallet: data.wallet }
SnapshotPayload(body) == WBody(FALSE, Absent, body.wallet, Absent)

\* lines 240-242 and 251-252: fetchWalletSnapshot, at load and every 30 s
fetchWalletSnapshot ==
    /\ dashLog.polls < MaxWalletPolls
    /\ walletOut' = walletOut + 1
    /\ dashLog' = [dashLog EXCEPT !.polls = @ + 1, !.op = "poll"]
    /\ UNCHANGED <<pageVars, amountValue, wdBtnDisabled, wdOut, withdrawView>>

\* lines 243-249: the wallet request settles, whatever its status
walletSettles ==
    /\ walletOut > 0
    /\ walletOut' = walletOut - 1
    /\ \E resp \in DashResponses :
         /\ dashLog' = [dashLog EXCEPT !.op = "wallet", !.resp = resp]
         /\ IF SnapshotOk(resp)
            THEN /\ hdrCounts' = CountsAfter(hdrCounts, SnapshotPayload(resp.body))
                 /\ walletView' = WalletAfter(walletView, SnapshotPayload(resp.body))
            ELSE UNCHANGED <<hdrCounts, walletView>>
    /\ UNCHANGED <<dom, portsBody, amountValue, wdBtnDisabled, wdOut, withdrawView>>

-----------------------------------------------------------------------------
(* user_dashboard.js: the health card *)

\* the n-th answer of the metrics endpoint that carries ok: each of cpu_percent and
\* ram_percent is a number (below 0, within 0..100 or above 100), missing, or a text that
\* is no number
MetricsPayload(n) ==
    [cpu_percent |-> IF n % 9 = 6 THEN [kind |-> "absent", v |-> 0]
                     ELSE IF n % 9 = 7 THEN [kind |-> "text", v |-> 0]
                     ELSE [kind |-> "num", v |-> ((n * 13) % 141) - 20],
     ram_percent |-> IF n % 5 = 0 THEN [kind |-> "absent", v |-> 0]
                     ELSE [kind |-> "num", v |-> ((n * 11) % 131) - 10]]

\* lines 311-312: Number(x || 0); a text that is no number gives NaN
PercentOf(x) ==
    IF x.kind = "num" THEN [kind |-> "num", v |-> x.v]
    ELSE IF x.kind = "absent" THEN [kind |-> "num", v |-> 0]
    ELSE [kind |-> "nan", v |-> 0]

recordUnbounded(val, list) ==
    Append(list, IF val.kind = "nan" THEN val
                 ELSE [val EXCEPT !.v = Max(0, Min(100, val.v))])

\* lines 305-308: record(val, list), as the list it leaves. Math.min and Math.max give NaN
\* for NaN
record(val, list) ==
    LET RECURSIVE shift(_)
        shift(l) == IF Len(l) > HistoryMax THEN shift(Tail(l)) ELSE l
    IN  shift(Append(list, IF val.kind = "nan" THEN val
                           ELSE [val EXCEPT !.v = Max(0, Min(100, val.v))]))

\* lines 325-326 and 331-332: fetchMetrics, at load and every 5 s
fetchMetrics ==
    /\ healthLog.polls < MaxMetricsPolls
    /\ metricsOut < MaxMetricsInFlight
    /\ metricsOut' = metricsOut + 1
    /\ healthLog' = [healthLog EXCEPT !.polls = @ + 1]
    /\ UNCHANGED history

\* lines 327-329: the metrics request settles; an answer with ok runs updateCard
\* (lines 310-323), which records both samples
metricsSettles ==
    /\ metricsOut > 0
    /\ metricsOut' = metricsOut - 1
    /\ \E outcome \in {"ok", "notok", "null", "nonjson", "reject"} :
         /\ healthLog' = [healthLog EXCEPT !.last = outcome,
                                           !.accepted = IF outcome = "ok" THEN @ + 1 ELSE @]
         /\ IF outcome = "ok"
            THEN history' =
                   [cpu |-> record(PercentOf(MetricsPayload(healthLog.accepted + 1).cpu_percent),
                                   history.cpu),
                    ram |-> record(PercentOf(MetricsPayload(healthLog.accepted + 1).ram_percent),
                                   history.ram)]
            ELSE UNCHANGED history

-----------------------------------------------------------------------------
(* index_login.js *)

\* lines 13-25: the script runs; it reads the reduced-motion preference once and looks up
\* the card. The flashes are those of the page as served
loadLogin ==
    /\ loginPc = "none"
    /\ loginPc' = "script"
    /\ prefersReduced' \in BOOLEAN
    /\ card' \in BOOLEAN
    /\ flash' \in [err : BOOLEAN, ok : BOOLEAN]
    /\ UNCHANGED <<bg, tilt, effects>>

DOMContentLoadedAnyMotion ==
    /\ loginPc = "script"
    /\ loginPc' = "ready"
    /\ bg' = IF bg.rafId = 0 THEN [bg EXCEPT !.rafId = 1] ELSE bg
    /\ tilt' = IF ~card THEN tilt ELSE [tilt EXCEPT !.listeners = 2, !.active = TRUE]
    /\ effects' = [shaken |-> flash.err /\ card,
                   confetti |-> IF flash.ok THEN ConfettiPieces ELSE effects.confetti]
    /\ UNCHANGED <<prefersReduced, card, flash>>

\* lines 218-230: the DOMContentLoaded listener: bg.start (lines 58-62), tilt.bind
\* (lines 94-99), feedback (lines 173-188) with confettiBurst (lines 191-215). The ripples,
\* the focus halo and the reveal are left out: they touch none of the state below
DOMContentLoaded ==
    /\ loginPc = "script"
    /\ loginPc' = "ready"
    /\ bg' = IF prefersReduced THEN bg
             ELSE IF bg.rafId = 0 THEN [bg EXCEPT !.rafId = 1] ELSE bg
    /\ tilt' = IF ~card \/ prefersReduced THEN tilt
               ELSE [tilt EXCEPT !.listeners = 2, !.active = TRUE]
    /\ effects' = [shaken |-> flash.err /\ card,
                   confetti |-> IF flash.ok /\ ~prefersReduced
                                THEN ConfettiPieces ELSE effects.confetti]
    /\ UNCHANGED <<prefersReduced, card, flash>>

\* lines 33-57: bg.tick, run by the animation frame it requested; it requests the next
bgTick ==
    /\ bg.rafId # 0
    /\ bg.t < MaxFrames
    /\ bg' = [bg EXCEPT !.t = @ + 1, !.rafId = 1]
    /\ UNCHANGED <<loginPc, prefersReduced, card, flash, tilt, effects>>

\* lines 74-87: the pointer moves over the card; tilt.onMove runs if it was bound
onMove ==
    /\ loginPc = "ready" /\ card
    /\ tilt.moves < MaxMoves
    /\ tilt' = IF tilt.listeners > 0 THEN [tilt EXCEPT !.moves = @ + 1] ELSE tilt
    /\ UNCHANGED <<loginPc, prefersReduced, card, flash, bg, effects>>

\* line 213: a confetti piece ends its fall and is removed
confettiFinish ==
    /\ effects.confetti > 0
    /\ effects' = [effects EXCEPT !.confetti = @ - 1]
    /\ UNCHANGED <<loginPc, prefersReduced, card, flash, bg, tilt>>

\* lines 63-66 and 233: beforeunload runs bg.stop
beforeunload ==
    /\ loginPc # "none"
    /\ bg' = [bg EXCEPT !.rafId = 0]
    /\ UNCHANGED <<loginPc, prefersReduced, card, flash, tilt, effects>>

-----------------------------------------------------------------------------
(* The requests of the scripts, as the arguments they hand to fetch *)

\* scan_animation.js lines 45-49
ScanRequest ==
    [url |-> "scanJson", method |-> "POST", headers |-> {"X-Requested-With"},
     credentials |-> "same-origin"]

\* resolve_ports.js lines 53-63
ResolveRequest ==
    [url |-> "resolveJson", method |-> "POST",
     headers |-> {"Content-Type", "X-Requested-With", "X-Idempotency-Key", "X-CSRFToken"},
     credentials |-> "same-origin"]

\* resolve_ports.js lines 78-87
ArchiveRequest ==
    [url |-> "archiveJson", method |-> "POST",
     headers |-> {"Content-Type", "X-Requested-With", "X-CSRFToken"},
     credentials |-> "same-origin"]

\* resolve_ports.js lines 91-100
UnarchiveRequest ==
    [url |-> "unarchiveJson", method |-> "POST",
     headers |-> {"Content-Type", "X-Requested-With", "X-CSRFToken"},
     credentials |-> "same-origin"]

\* resolve_ports.js lines 105-107: no method given, a GET
RemainingRequest ==
    [url |-> "remaining", method |-> "GET", headers |-> {}, credentials |-> "same-origin"]

\* user_dashboard.js lines 356-365
WithdrawRequest ==
    [url |-> "withdrawJson", method |-> "POST",
     headers |-> {"Content-Type", "X-Requested-With", "X-CSRFToken"},
     credentials |-> "same-origin"]

\* user_dashboard.js line 242: no method given, a GET
WalletRequest ==
    [url |-> "walletJson", method |-> "GET", headers |-> {}, credentials |-> "same-origin"]

\* news_search.js lines 121-130
NewsStartRequest ==
    [url |-> "newsStart", method |-> "POST",
     headers |-> {"Content-Type", "X-CSRFToken", "X-Requested-With"},
     credentials |-> "same-origin"]

\* news_search.js lines 213-217
NewsStatusRequest ==
    [url |-> "newsStatus", method |-> "GET", headers |-> {"Accept"},
     credentials |-> "same-origin"]

\* news_search.js lines 242-251
NewsClearRequest ==
    [url |-> "newsClear", method |-> "POST",
     headers |-> {"Content-Type", "X-CSRFToken", "X-Requested-With"},
     credentials |-> "same-origin"]

\* fetch(url, options): the request goes out
send(req) ==
    /\ wire' = wire \cup {req}
    /\ UNCHANGED <<pageVars, scanVars, resolveVars, archiveVars, newsVars, dashVars, healthVars, loginVars>>

\* the other scripts as loaded. user_dashboard.js: the first wallet request (line 251) and
\* the first metrics request (line 331) are on their way; index_login.js has not run yet
InitRest ==
    /\ amountValue = <<>>
    /\ wdBtnDisabled = FALSE
    /\ wdOut = <<>>
    /\ withdrawView = <<[total |-> 0, count |-> 0]>>
    /\ walletOut = 1
    /\ dashLog = [submits |-> 0, posts |-> 0, polls |-> 1, op |-> "load",
                  resp |-> [kind |-> "reject", status |-> 200, body |-> NullWBody]]
    /\ history = [cpu |-> <<>>, ram |-> <<>>]
    /\ metricsOut = 1
    /\ healthLog = [polls |-> 1, accepted |-> 0, last |-> "none"]
    /\ wire = {}
    /\ loginPc = "none" /\ prefersReduced = FALSE /\ card = FALSE
    /\ flash = [err |-> FALSE, ok |-> FALSE]
    /\ bg = [rafId |-> 0, t |-> 0]
    /\ tilt = [active |-> FALSE, listeners |-> 0, moves |-> 0]
    /\ effects = [shaken |-> FALSE, confetti |-> 0]

-----------------------------------------------------------------------------
\* every script loaded, on a page that holds all the optional elements
Init == dom = Elements /\ InitPage /\ InitScan /\ InitResolve /\ InitArchive /\ InitNews /\ InitRest

\* the same, on a page that may lack any of the optional elements
InitAnyPage == dom \in SUBSET Elements /\ InitPage /\ InitScan /\ InitResolve /\ InitArchive /\ InitNews /\ InitRest

\* the same, on a page that holds all of them, whatever job the backend has stored
InitNewsPage ==
    /\ dom = Elements /\ InitPage /\ InitScan /\ InitResolve /\ InitArchive /\ InitAnyJob /\ InitRest
    /\ newsClear = FALSE

\* a page whose facade does provide endpoints.newsClear, loaded with a finished job
InitClearPage ==
    /\ dom = Elements /\ InitPage /\ InitScan /\ InitResolve /\ InitArchive /\ InitRest
    /\ \E d \in JobDurations : BootNews(JobOf("completed", d, TRUE), 0)
    /\ newsClear = TRUE

NextScan ==
    \/ doScan /\ UNCHANGED <<resolveVars, archiveVars, newsVars, restVars>>
    \/ tick /\ UNCHANGED <<resolveVars, archiveVars, newsVars, restVars>>
    \/ scanSettles /\ UNCHANGED <<resolveVars, archiveVars, newsVars, restVars>>
    \/ closeOverlay /\ UNCHANGED <<resolveVars, archiveVars, newsVars, restVars>>

SpecScan == InitAnyPage /\ [][NextScan]_vars

resolveFrame == UNCHANGED <<dom, portsBody, scanVars, archiveVars, newsVars, restVars>>

\* the rows clicked in SpecResolve
ClickedRows == {"p1"}

NextResolve ==
    \/ \E r \in ClickedRows : handleResolve(r) /\ resolveFrame
    \/ \E f \in 1..MaxClicks : primingSettles(f) /\ resolveFrame
    \/ \E f \in 1..MaxClicks : resolveSettles(f) /\ resolveFrame
    \/ \E f \in 1..MaxClicks : backoffElapsed(f) /\ resolveFrame
    \/ \E f \in 1..MaxClicks : countdownTick(f) /\ resolveFrame

SpecResolve == Init /\ [][NextResolve]_vars

\* the scripts loaded on a page that holds discovered and archived rows
InitRowsPage ==
    dom = Elements /\ InitRows /\ InitScan /\ InitResolve /\ InitArchive /\ InitNews /\ InitRest

rowsFrame == UNCHANGED <<dom, scanVars, newsVars, restVars>>

\* the first click is on p1; a resolve click needs the row in the document
SecondRows == IF RowActions = 0 THEN {"p1"} ELSE Rows

NextRows ==
    \/ \E r \in SecondRows :
         /\ RowActions < MaxRowActions /\ rowsLive
         /\ handleResolve(r) /\ rowsFrame /\ UNCHANGED <<portsBody, archiveVars>>
    \/ \E f \in 1..MaxClicks : primingSettles(f) /\ rowsFrame /\ UNCHANGED <<portsBody, archiveVars>>
    \/ \E f \in 1..MaxClicks : resolveSettles(f) /\ rowsFrame /\ UNCHANGED <<portsBody, archiveVars>>
    \/ \E f \in 1..MaxClicks : backoffElapsed(f) /\ rowsFrame /\ UNCHANGED <<portsBody, archiveVars>>
    \/ \E f \in 1..MaxClicks : countdownTick(f) /\ rowsFrame /\ UNCHANGED <<portsBody, archiveVars>>
    \/ \E r \in SecondRows : RowActions < MaxRowActions /\ handleArchive(r) /\ rowsFrame
    \/ \E r \in Rows : archiveSettles(r) /\ rowsFrame
    \/ RowActions < MaxRowActions /\ handleUnarchive /\ rowsFrame
    \/ unarchiveSettles /\ rowsFrame

SpecRows == InitRowsPage /\ [][NextRows]_vars

newsFrame == UNCHANGED <<pageVars, scanVars, resolveVars, archiveVars, restVars>>

NextNews ==
    \/ newsClick /\ newsFrame /\ UNCHANGED clearVars
    \/ startSettles /\ newsFrame /\ UNCHANGED clearVars
    \/ newsTick /\ newsFrame /\ UNCHANGED clearVars
    \/ fetchStatus /\ newsFrame /\ UNCHANGED clearVars
    \/ statusSettles /\ newsFrame /\ UNCHANGED clearVars
    \/ handleClearClick /\ newsFrame
    \/ serverCompletes /\ newsFrame /\ UNCHANGED clearVars
    \/ timePasses /\ newsFrame /\ UNCHANGED clearVars

SpecNews == InitNewsPage /\ [][NextNews]_vars

NextNewsClear ==
    \/ newsLog.starts < MaxClearStarts /\ newsClick /\ newsFrame /\ UNCHANGED clearVars
    \/ startSettles /\ newsFrame /\ UNCHANGED clearVars
    \/ newsTick /\ newsFrame /\ UNCHANGED clearVars
    \/ fetchStatus /\ newsFrame /\ UNCHANGED clearVars
    \/ statusSettles /\ newsFrame /\ UNCHANGED clearVars
    \/ handleClearClick /\ newsFrame
    \/ clearSettles /\ newsFrame
    \/ clearRestore /\ newsFrame
    \/ serverCompletes /\ newsFrame /\ UNCHANGED clearVars
    \/ timePasses /\ newsFrame /\ UNCHANGED clearVars

SpecNewsClear == InitClearPage /\ [][NextNewsClear]_vars

\* the dashboard's wallet poll and withdrawal form
NextDash ==
    \/ typeAmount /\ UNCHANGED <<scanVars, resolveVars, archiveVars, newsVars, healthVars, wire, loginVars>>
    \/ submitWithdraw /\ UNCHANGED <<scanVars, resolveVars, archiveVars, newsVars, healthVars, wire, loginVars>>
    \/ withdrawSettles /\ UNCHANGED <<scanVars, resolveVars, archiveVars, newsVars, healthVars, wire, loginVars>>
    \/ fetchWalletSnapshot /\ UNCHANGED <<scanVars, resolveVars, archiveVars, newsVars, healthVars, wire, loginVars>>
    \/ walletSettles /\ UNCHANGED <<scanVars, resolveVars, archiveVars, newsVars, healthVars, wire, loginVars>>

SpecDash == InitRowsPage /\ [][NextDash]_vars

\* the dashboard's health card
NextHealth ==
    \/ fetchMetrics /\ UNCHANGED <<pageVars, scanVars, resolveVars, archiveVars, newsVars, dashVars, wire, loginVars>>
    \/ metricsSettles /\ UNCHANGED <<pageVars, scanVars, resolveVars, archiveVars, newsVars, dashVars, wire, loginVars>>

SpecHealth == InitRowsPage /\ [][NextHealth]_vars

\* every fetch call of the scripts, in any order
NextRequests ==
    \/ send(ScanRequest)
    \/ send(ResolveRequest)
    \/ send(ArchiveRequest)
    \/ send(UnarchiveRequest)
    \/ send(RemainingRequest)
    \/ send(WithdrawRequest)
    \/ send(WalletRequest)
    \/ send(NewsStartRequest)
    \/ send(NewsStatusRequest)
    \/ send(NewsClearRequest)

SpecRequests == InitRowsPage /\ [][NextRequests]_vars

\* the login page
NextLogin ==
    \/ loadLogin /\ UNCHANGED <<pageVars, scanVars, resolveVars, archiveVars, newsVars, dashVars, healthVars, wire>>
    \/ DOMContentLoaded /\ UNCHANGED <<pageVars, scanVars, resolveVars, archiveVars, newsVars, dashVars, healthVars, wire>>
    \/ bgTick /\ UNCHANGED <<pageVars, scanVars, resolveVars, archiveVars, newsVars, dashVars, healthVars, wire>>
    \/ onMove /\ UNCHANGED <<pageVars, scanVars, resolveVars, archiveVars, newsVars, dashVars, healthVars, wire>>
    \/ confettiFinish /\ UNCHANGED <<pageVars, scanVars, resolveVars, archiveVars, newsVars, dashVars, healthVars, wire>>
    \/ beforeunload /\ UNCHANGED <<pageVars, scanVars, resolveVars, archiveVars, newsVars, dashVars, healthVars, wire>>

SpecLogin == Init /\ [][NextLogin]_vars

\* frames, timeouts and the settling of a sent request eventually happen
SpecScanFair ==
    /\ SpecScan
    /\ WF_vars(tick /\ UNCHANGED <<resolveVars, archiveVars, newsVars, restVars>>)
    /\ WF_vars(scanSettles /\ UNCHANGED <<resolveVars, archiveVars, newsVars, restVars>>)
    /\ WF_vars(closeOverlay /\ UNCHANGED <<resolveVars, archiveVars, newsVars, restVars>>)

\* the settling of a sent request, the backoff timeout and the interval callback of a
\* countdown eventually happen
\* a row right after startMiniCountdown(row, rowId, T, onDone): either the priming
\* answer asked for a wait of T >= 1 seconds, or the first resolve call answered
\* too_early with a positive seconds_remaining whose whole part is T (0 when it is
\* below one second)
InitCountdown ==
    /\ dom = Elements /\ InitPage /\ InitScan /\ InitArchive /\ InitNews /\ InitRest
    /\ rowStatus = [r \in Rows |-> "discovered"]
    /\ rowControls = [r \in Rows |-> TRUE]
    /\ \E r \in Rows, T \in 0..MaxCountdownSecs, answered \in BOOLEAN :
         /\ ~answered => T > 0
         /\ flows = << StartCountdown(
                         IF answered
                         THEN [SendResolve(1, [NewFlow(r) EXCEPT !.primed = "zero"], 0)
                                 EXCEPT !.last = "too_early"]
                         ELSE [NewFlow(r) EXCEPT !.primed = "wait"],
                         T) >>
         /\ rowTimers = [q \in Rows |-> IF q = r THEN 1 ELSE 0]
         /\ miniHidden = [q \in Rows |-> q # r]

NextCountdown ==
    \/ \E f \in 1..MaxClicks : countdownTick(f) /\ resolveFrame
    \/ \E f \in 1..MaxClicks : resolveSettles(f) /\ resolveFrame
    \/ \E f \in 1..MaxClicks : backoffElapsed(f) /\ resolveFrame

SpecCountdown == InitCountdown /\ [][NextCountdown]_vars

SpecResolveFair ==
    /\ SpecResolve
    /\ \A f \in 1..MaxClicks :
         /\ WF_vars(primingSettles(f) /\ resolveFrame)
         /\ WF_vars(resolveSettles(f) /\ resolveFrame)
         /\ WF_vars(backoffElapsed(f) /\ resolveFrame)
         /\ WF_vars(countdownTick(f) /\ resolveFrame)

-----------------------------------------------------------------------------
(* Claims about the scan overlay animator *)

scanCore == <<scanInFlight, overlay, btnDisabled, barWidth, barSnap, statusText, scanPc,
              totalMs, elapsed, stepIdx, payload, scanOutstanding>>

\* C1: while scanInFlight is set (from the accepting doScan to the closing timeout) a
\* further doScan invocation sends no request and changes neither the overlay, the bar,
\* the status text nor the animation; so at most one scan request is outstanding.
C1_ScanSingleFlight ==
    /\ [](scanOutstanding <= 1)
    /\ [](scanLog.requests = scanLog.accepted)
    /\ [](scanInFlight <=> scanPc # "idle")
    /\ [][(scanInFlight /\ scanLog'.calls # scanLog.calls)
            => (UNCHANGED <<pageVars, scanCore>>
                /\ scanLog' = [scanLog EXCEPT !.calls = @ + 1])]_vars

\* a doScan invocation was turned away while the request of the accepted one is pending
C1_Witness ==
    scanInFlight /\ scanLog.calls > scanLog.accepted /\ scanOutstanding = 1

\* C2: an accepted scan shows the overlay and disables the trigger at once, and then
\* eventually hides the overlay, re-enables the trigger exactly once and clears
\* scanInFlight, however the request settles.
C2_ScanLiveness ==
    /\ [][scanLog'.accepted # scanLog.accepted
            => /\ scanInFlight'
               /\ "overlay" \in dom => overlay' = "flex"
               /\ "btn" \in dom => btnDisabled']_vars
    /\ [](scanLog.closed = scanLog.accepted - (IF scanInFlight THEN 1 ELSE 0))
    /\ []("btn" \in dom => scanLog.enables = scanLog.closed)
    /\ [][scanLog'.enables # scanLog.enables => (btnDisabled /\ ~btnDisabled')]_vars
    /\ (scanInFlight ~> (~scanInFlight /\ overlay = "none" /\ ~btnDisabled))

\* a scan whose request was rejected has been closed again
C2_Witness ==
    /\ scanLog.closed = 1 /\ scanLog.respKind = "reject"
    /\ ~scanInFlight /\ overlay = "none" /\ ~btnDisabled /\ Elements \subseteq dom

\* C3: a scan is finalized (final status, page update, bar at 100%, close scheduled) only
\* when the animation time has elapsed and the request has settled, whichever is last.
C3_ScanJoin ==
    /\ [](scanPc = "animating" => elapsed < totalMs /\ scanLog.finalized < scanLog.accepted)
    /\ [](scanPc = "joining"
            => elapsed >= totalMs /\ scanOutstanding = 1
               /\ scanLog.finalized < scanLog.accepted)
    /\ [](scanPc = "closing"
            => elapsed >= totalMs /\ scanOutstanding = 0
               /\ scanLog.finalized = scanLog.accepted)
    /\ [][scanLog'.finalized # scanLog.finalized
            => elapsed' >= totalMs /\ scanOutstanding' = 0 /\ scanPc' = "closing"]_vars
    /\ [][scanLog'.finalized = scanLog.finalized
            => /\ UNCHANGED <<hdrCounts, walletView, portsBody, barSnap>>
               /\ statusText' \in {statusText} \cup {steps[i] : i \in 1..Len(steps)}]_vars

\* the response came before the animation ended and the scan was finalized by the last frame
C3_Witness ==
    scanPc = "closing" /\ scanLog.joinedEarly /\ scanLog.respKind = "json" /\ scanLog.respOk

\* C4: a rejected request, a non-JSON body or a payload without ok ends with the retry
\* message and leaves header counts, wallet and table alone; a payload with ok rewrites them.
C4_ScanFailureHandling ==
    [][scanLog'.finalized # scanLog.finalized
         => IF scanLog'.respKind = "json" /\ scanLog'.respOk
            THEN /\ hdrCounts' = CountsAfter(hdrCounts, payload')
                 /\ walletView' = WalletAfter(walletView, payload')
                 /\ portsBody' = renderAll(payload'.lists.d, payload'.lists.r, payload'.lists.a)
                 /\ "status" \in dom => statusText' \in {"found_ports", "no_vulns"}
            ELSE /\ UNCHANGED <<hdrCounts, walletView, portsBody>>
                 /\ "status" \in dom => statusText' = "retry_message"]_vars

\* a scan answered ok:false with table data attached was finalized
C4_Witness ==
    /\ scanPc = "closing" /\ scanLog.respKind = "json" /\ ~scanLog.respOk
    /\ ~payload.isNull /\ payload.changed > 0 /\ statusText = "retry_message"

-----------------------------------------------------------------------------
(* Claims about the resolve flow of a row *)

Clicks == DOMAIN flows

\* click f sends a resolve request in this step
Sends(f) ==
    /\ f \in Clicks
    /\ flows'[f].pc = "resolving"
    /\ flows[f].pc # "resolving"

\* the value of the apiResolve invocation of click f is handed to handleResolve in this step
Yields(f) ==
    /\ f \in Clicks
    /\ flows[f].pc = "resolving"
    /\ flows'[f].pc \notin {"resolving", "backoff"}

\* C6: one apiResolve invocation sends at most 3 requests; a retry follows only a 409 or
\* 423 answer and a wait of 150 ms times the number of the retry; when the third answer
\* is 409/423 too, or an answer is another non-2xx status, the invocation yields a failure
\* and the row is not marked resolved.
C6_ResolveRetryBound ==
    /\ [](\A f \in Clicks : flows[f].callReqs <= 3)
    /\ [](\A f \in Clicks :
            flows[f].pc = "backoff"
                => flows[f].last = "conflict" /\ flows[f].backoff = 150 * flows[f].callReqs)
    /\ [][\A f \in Clicks :
            (Sends(f) /\ flows'[f].callReqs > 1)
                => /\ flows[f].pc = "backoff" /\ flows[f].last = "conflict"
                   /\ flows'[f].callReqs = flows[f].callReqs + 1
                   /\ flows[f].backoff \in {150, 300}]_vars
    /\ [][\A f \in Clicks :
            (flows[f].pc = "resolving" /\ flows'[f] # flows[f]
                /\ flows'[f].last \in {"conflict", "http_error"}
                /\ (flows[f].callReqs = 3 \/ flows'[f].last = "http_error"))
                => /\ flows'[f].pc = "done" /\ flows'[f].out = "failed"
                   /\ UNCHANGED <<rowStatus, rowControls>>]_vars

\* the third request of an invocation was answered 409/423 and the click ended in failure
C6_Witness ==
    \E f \in Clicks :
        /\ flows[f].pc = "done" /\ flows[f].last = "conflict" /\ flows[f].out = "failed"
        /\ rowStatus[flows[f].row] = "discovered"

\* C7: two 409 answers and then ok:true on the third request: exactly 3 requests were
\* sent by the invocation, none follows, and the row ends in the resolved rendering.
C7_ResolveAfterTwoConflicts ==
    [][\A f \in Clicks :
         (flows[f].pc = "resolving" /\ flows[f].got409 = 2
             /\ flows'[f].pc # "resolving" /\ flows'[f].last = "ok")
             => /\ flows[f].callReqs = 3
                /\ flows'[f].pc = "done" /\ flows'[f].out = "resolved"
                /\ rowStatus'[flows[f].row] = "resolved"
                /\ ~rowControls'[flows[f].row]
                /\ miniHidden'[flows[f].row]]_vars

\* a click whose resolve call was answered 409, 409, ok has resolved its row
C7_Witness ==
    \E f \in Clicks :
        /\ flows[f].pc = "done" /\ flows[f].got409 = 2 /\ flows[f].last = "ok"
        /\ flows[f].out = "resolved" /\ rowStatus[flows[f].row] = "resolved"

\* C8: every resolve request (first request, 409/423 retry, request after a countdown)
\* carries the key that idempotencyKey() made for that request, so no two requests carry
\* the same key.
C8_FreshIdempotencyKey ==
    /\ [][\A f \in Clicks :
            Sends(f) => flows'[f].key = <<f, flows'[f].call, flows'[f].callReqs>>]_vars
    /\ [](\A f, g \in Clicks :
            (f # g /\ flows[f].pc = "resolving" /\ flows[g].pc = "resolving")
                => flows[f].key # flows[g].key)
    /\ [][\A f \in Clicks :
            (Sends(f) /\ flows[f].key # <<>>) => flows'[f].key # flows[f].key]_vars

\* a 409/423 retry of the call that follows a countdown is in flight
C8_Witness ==
    \E f \in Clicks :
        flows[f].pc = "resolving" /\ flows[f].call = 2 /\ flows[f].callReqs = 2

\* C9: priming answers remaining = 0 and the resolve call answers ok:true: the row goes
\* straight to the resolved rendering, the click registers no countdown timer and does
\* not un-hide the mini indicator.
C9_ImmediateResolve ==
    /\ [](\A f \in Clicks :
            (flows[f].primed = "zero" /\ flows[f].call <= 1 /\ flows[f].last # "too_early")
                => /\ flows[f].cds = 0 /\ ~flows[f].shown
                   /\ rowTimers[flows[f].row] # f)
    /\ []((Len(flows) = 1 /\ flows[1].cds = 0)
            => miniHidden[flows[1].row] /\ rowTimers[flows[1].row] = 0)
    /\ [][\A f \in Clicks :
            (Yields(f) /\ flows[f].primed = "zero" /\ flows[f].call = 1
                /\ flows'[f].last = "ok")
                => /\ flows'[f].pc = "done" /\ flows'[f].out = "resolved"
                   /\ rowStatus'[flows[f].row] = "resolved"
                   /\ miniHidden'[flows[f].row]
                   /\ flows'[f].cds = 0 /\ ~flows'[f].shown]_vars

\* the only click on the row was primed with 0, answered ok, and the row is resolved
C9_Witness ==
    /\ Len(flows) = 1
    /\ flows[1].primed = "zero" /\ flows[1].pc = "done" /\ flows[1].last = "ok"
    /\ flows[1].call = 1 /\ rowStatus[flows[1].row] = "resolved"

\* C10: priming answers remaining = N > 0: the click sends no resolve request before its
\* countdown has completed, and the completion of a countdown issues exactly one resolve
\* call.
C10_CountdownBeforeResolve ==
    /\ [](\A f \in Clicks :
            flows[f].primed = "wait"
                => /\ flows[f].call = flows[f].cdsDone
                   /\ flows[f].cds >= 1
                   /\ (flows[f].cdsDone = 0
                         => flows[f].pc \in {"countdown", "cancelled"} /\ flows[f].callReqs = 0))
    /\ [][\A f \in Clicks :
            flows'[f].cdsDone # flows[f].cdsDone
                => /\ flows[f].pc = "countdown"
                   /\ flows'[f].cdsDone = flows[f].cdsDone + 1
                   /\ flows'[f].call = flows[f].call + 1
                   /\ flows'[f].pc = "resolving" /\ flows'[f].callReqs = 1]_vars
    /\ [][\A f \in Clicks :
            (flows[f].primed = "wait" /\ Sends(f) /\ flows'[f].callReqs = 1)
                => flows'[f].cdsDone = flows[f].cdsDone + 1]_vars

\* a click primed with N > 0 has sent its first resolve request, after its countdown
C10_Witness ==
    \E f \in Clicks :
        /\ flows[f].primed = "wait" /\ flows[f].pc = "resolving"
        /\ flows[f].cdsDone = 1 /\ flows[f].call = 1

-----------------------------------------------------------------------------
(* Claims about the row action controller: resolve, archive, unarchive *)

\* C11: a first resolve call answered too_early with seconds_remaining > 0 starts a
\* countdown of that duration with the mini indicator shown and the row untouched; the
\* end of a countdown sends one resolve call; when the call after the countdown is
\* unsuccessful (too_early again included) the click ends: no countdown, no request.
C11_TooEarlyCountdown ==
    /\ [][\A f \in Clicks :
            (Yields(f) /\ flows'[f].last = "too_early" /\ flows[f].call = 1)
                => /\ flows'[f].pc = "countdown" /\ flows'[f].cdTotal = 1
                   /\ flows'[f].cds = flows[f].cds + 1 /\ flows'[f].out = "none"
                   /\ rowTimers'[flows[f].row] = f
                   /\ rowControls[flows[f].row] => ~miniHidden'[flows[f].row]
                   /\ UNCHANGED <<rowStatus, rowControls>>]_vars
    /\ [][\A f \in Clicks :
            (flows[f].pc = "countdown" /\ flows'[f].cdsDone # flows[f].cdsDone)
                => Sends(f) /\ flows'[f].call = flows[f].call + 1
                   /\ flows'[f].callReqs = 1]_vars
    /\ [][\A f \in Clicks :
            (Yields(f) /\ flows[f].call = 2 /\ flows'[f].last # "ok")
                => /\ flows'[f].pc = "done" /\ flows'[f].out = "failed"
                   /\ flows'[f].cds = flows[f].cds
                   /\ rowTimers' = rowTimers]_vars
    /\ [][\A f \in Clicks : flows[f].pc = "done" => flows'[f] = flows[f]]_vars
    /\ [](\A f \in Clicks : flows[f].call <= 2 /\ flows[f].cds <= flows[f].call + 1)

\* the call after a too_early countdown was answered too_early again and the click ended
C11_Witness ==
    \E f \in Clicks :
        /\ flows[f].pc = "done" /\ flows[f].out = "failed" /\ flows[f].call = 2
        /\ flows[f].last = "too_early" /\ flows[f].primed = "zero" /\ flows[f].cds = 1

\* the resolve call of click f ends in this step without ok
FailingEnd(f) ==
    /\ f \in Clicks
    /\ flows[f].pc = "resolving"
    /\ flows'[f].pc = "done" /\ flows'[f].out = "failed"

\* C12: every failing end of a resolve flow (an answer without ok other than a first
\* too_early, a rejected request, a failed call after a countdown, conflict retries used
\* up) hides the row's mini indicator and leaves the row's status and controls as they
\* were: a discovered row is still discovered and holds its resolve and archive controls.
C12_ResolveFailureCleanup ==
    /\ [][\A f \in Clicks :
            (Yields(f) /\ flows'[f].last # "ok"
                /\ ~(flows'[f].last = "too_early" /\ flows[f].call = 1))
                => FailingEnd(f)]_vars
    /\ [][\A f \in Clicks :
            FailingEnd(f)
                => /\ miniHidden'[flows[f].row]
                   /\ rowStatus' = rowStatus /\ rowControls' = rowControls
                   /\ UNCHANGED <<hdrCounts, walletView, portsBody>>]_vars
    /\ [](\A r \in Rows : rowControls[r] <=> rowStatus[r] = "discovered")

\* conflict retries were used up by the call that followed a countdown: the indicator the
\* countdown had shown is hidden and the row is still discovered with its controls
C12_Witness ==
    \E f \in Clicks :
        /\ flows[f].pc = "done" /\ flows[f].out = "failed" /\ flows[f].last = "conflict"
        /\ flows[f].shown /\ miniHidden[flows[f].row]
        /\ rowStatus[flows[f].row] = "discovered" /\ rowControls[flows[f].row]

\* the answer is a JSON object with ok true
AnsweredOk(resp) == resp.kind = "json" /\ ~resp.body.isNull /\ resp.body.ok

\* C13: the status cell of a row changes only in the step in which a resolve call of a
\* click on that row yields ok:true (to resolved) or an archive request of that row is
\* answered ok:true (to archived), and the table is rendered anew only by an archive or
\* unarchive answer with ok:true: no click, tick, countdown end, failed answer or rejected
\* request changes a displayed status.
C13_StatusOnConfirmation ==
    /\ [][\A r \in Rows :
            rowStatus'[r] # rowStatus[r]
                => \/ /\ rowStatus'[r] = "resolved"
                      /\ \E f \in Clicks :
                           flows[f].row = r /\ Yields(f) /\ flows'[f].last = "ok"
                   \/ /\ rowStatus'[r] = "archived"
                      /\ archOut'[r] = archOut[r] - 1
                      /\ rowLog'.last.op = "archive" /\ AnsweredOk(rowLog'.last.resp)]_vars
    /\ [][portsBody' # portsBody
            => /\ AnsweredOk(rowLog'.last.resp)
               /\ \/ unarchOut' = unarchOut - 1
                  \/ \E r \in Rows : archOut'[r] = archOut[r] - 1]_vars

\* a row was archived by an ok answer after its archive click had stopped a countdown
C13_Witness ==
    \E f \in Clicks :
        /\ flows[f].pc = "cancelled" /\ rowStatus[flows[f].row] = "archived"
        /\ rowLog.last.op = "archive" /\ AnsweredOk(rowLog.last.resp)

\* C14: every running countdown interval is the one rowTimers holds under its row key,
\* so a key has at most one; the map holds running intervals only; a countdown started
\* for a key ends the one that was running for it, and an ended one never calls onDone.
C14_OneCountdownPerRow ==
    /\ [](\A f \in Clicks :
            flows[f].pc = "countdown" => rowTimers[flows[f].row] = f)
    /\ [](\A r \in Rows :
            rowTimers[r] # 0
                => /\ rowTimers[r] \in Clicks
                   /\ flows[rowTimers[r]].pc = "countdown"
                   /\ flows[rowTimers[r]].row = r)
    /\ [][\A f, g \in Clicks :
            (f # g /\ flows[g].row = flows[f].row /\ flows[g].pc = "countdown"
                /\ flows'[f].pc = "countdown" /\ flows'[f].cds # flows[f].cds)
                => flows'[g].pc = "cancelled"]_vars
    /\ [][\A f \in Clicks : flows[f].pc = "cancelled" => flows'[f] = flows[f]]_vars
    /\ [](\A f \in Clicks : flows[f].pc = "cancelled" => flows[f].cdsDone < flows[f].cds)

\* the countdown of the later click was replaced by the countdown of the earlier click
C14_Witness ==
    /\ Len(flows) = 2
    /\ flows[1].row = flows[2].row
    /\ flows[1].pc = "countdown" /\ flows[2].pc = "cancelled"
    /\ rowTimers[flows[1].row] = 1

\* C15: a countdown runs while the whole seconds left, total - floor((now - start) / 1000),
\* are above 0 and calls onDone once, at the first tick that finds them at 0, however many
\* ticks ran and however late; the tick clears the interval and removes the key; a
\* countdown that was stopped never calls onDone.
C15_CountdownFiresOnce ==
    /\ [](\A f \in Clicks :
            flows[f].pc = "countdown"
                => /\ flows[f].cdElapsed < 1000 * flows[f].cdTotal
                   /\ flows[f].cdsDone = flows[f].cds - 1)
    /\ [][\A f \in Clicks :
            flows'[f].cdsDone # flows[f].cdsDone
                => /\ flows[f].pc = "countdown"
                   /\ flows'[f].cdsDone = flows[f].cdsDone + 1
                   /\ flows'[f].pc = "resolving"
                   /\ rowTimers'[flows[f].row] = 0
                   /\ ~flows'[f].early]_vars
    /\ [](\A f \in Clicks :
            flows[f].pc \in {"resolving", "backoff", "done"}
                => flows[f].cdsDone = flows[f].cds)
    /\ [](\A f \in Clicks :
            flows[f].pc = "cancelled" => flows[f].cdsDone = flows[f].cds - 1)

\* a countdown of two seconds asked for by the priming call has called onDone, and the
\* key is gone from the map
C15_Witness ==
    \E f \in Clicks :
        /\ flows[f].primed = "wait" /\ flows[f].cdsDone = 1 /\ flows[f].cds = 1
        /\ flows[f].pc = "resolving" /\ rowTimers[flows[f].row] = 0
        /\ \E g \in Clicks : flows[g].pc = "cancelled"

\* the row a resolve or archive button is clicked on in this step
ClickedOn(r) ==
    \/ Len(flows') = Len(flows) + 1 /\ flows'[Len(flows')].row = r
    \/ archOut'[r] = archOut[r] + 1

\* C16: a resolve or archive click on a row stops only the interval registered under that
\* row's key: the entries of all other keys and the countdowns of clicks on other rows stay
\* as they are; a countdown is only ever ended by a step of a click on its own row.
C16_NoCrossRowCancellation ==
    /\ [][\A r \in Rows :
            ClickedOn(r)
                => /\ rowTimers'[r] = 0
                   /\ \A q \in Rows \ {r} : rowTimers'[q] = rowTimers[q]
                   /\ \A f \in Clicks : flows[f].row # r => flows'[f] = flows[f]]_vars
    /\ [][\A f \in Clicks :
            (flows[f].pc = "countdown" /\ flows'[f].pc = "cancelled")
                => \/ ClickedOn(flows[f].row)
                   \/ \E g \in Clicks \ {f} :
                        /\ flows[g].row = flows[f].row
                        /\ flows'[g].pc = "countdown" /\ flows'[g].cds # flows[g].cds]_vars
    /\ [][\A r \in Rows :
            rowTimers'[r] # rowTimers[r]
                => \/ ClickedOn(r)
                   \/ \E g \in Clicks : flows[g].row = r /\ flows'[g] # flows[g]]_vars

\* an archive click on one row found the countdown of the other row registered, and that
\* countdown has run on
C16_Witness ==
    /\ rowLog.spared
    /\ \E f \in Clicks :
         /\ flows[f].row = "p1" /\ flows[f].pc = "resolving" /\ flows[f].cdsDone = 1
         /\ flows[f].primed = "wait"
    /\ rowLog.archives = 1

\* an archive or unarchive request settles in this step
ArchiveAnswered ==
    \/ unarchOut' = unarchOut - 1
    \/ \E r \in Rows : archOut'[r] = archOut[r] - 1

-----------------------------------------------------------------------------
(* Claims about the news-search job poller *)

\* C5: while the page holds a job in_progress, once the local countdown has reached one
\* second or less (eta passed included) a status request is sent within about 1.5
\* seconds: never do more than 3 seconds pass after the ticker saw the countdown at one
\* second or less without a status request being sent.
C5_FastPollIssued ==
    (job.status = "in_progress" /\ newsLog.watching) => newsLog.sinceDue <= 2 * FastPollMs

\* C18: a click on the trigger while the page holds a job in_progress sends no start
\* request and changes nothing the script shows or keeps.
C18_NoStartWhileRunning ==
    /\ [][job.status = "in_progress"
            => /\ newsLog'.starts = newsLog.starts
               /\ startOutstanding' <= startOutstanding]_vars
    /\ [][newsLog'.refused # newsLog.refused
            => /\ job.status = "in_progress"
               /\ UNCHANGED <<job, tickTimer, pollTimer, newsUI, statusOutstanding,
                              startOutstanding, serverJob, etaIn>>]_vars

\* the trigger, enabled again by the failure of an earlier start request, was clicked
\* while the job of a later one is running
C18_Witness ==
    /\ newsLog.refused /\ job.status = "in_progress" /\ ~newsUI.btnDisabled
    /\ startOutstanding = 0

\* C19: the progress bar is at 100% only while the job the page rendered last has status
\* completed.
C19_FullOnlyWhenCompleted ==
    newsUI.fill = 10000 => job.status = "completed"

\* a start or status answer renders a completed job in this step
CompletedAnswered ==
    /\ startOutstanding' < startOutstanding \/ statusOutstanding' < statusOutstanding
    /\ newsLog'.answer = "completed"

\* C20: the step that renders a completed job from a start or status answer stops the
\* ticker, puts the bar at 100%, enables the trigger, shows the result panel and arms no
\* status poll; and as long as the page holds that completed job no further status request
\* is sent for it.
C20_CompletionEndsPolling ==
    /\ [][CompletedAnswered
            => /\ job'.status = "completed"
               /\ tickTimer' = <<>>
               /\ newsUI'.fill = 10000 /\ ~newsUI'.btnDisabled /\ ~newsUI'.resultHidden
               /\ pollTimer' = pollTimer]_vars
    /\ [][(newsLog.terminal /\ job.status = "completed")
            => statusOutstanding' <= statusOutstanding]_vars

C22_ClearAsksServer ==
    /\ [][handleClearClick
            => /\ clearOutstanding' = clearOutstanding + 1
               /\ UNCHANGED <<job, newsUI>>]_vars
    /\ [][(job.status = "completed" /\ job'.status = "null" /\ newsLog'.clears # newsLog.clears)
            => /\ clearOutstanding' < clearOutstanding
               /\ serverJob' = NoJob]_vars

\* C29: in every state the trigger is disabled with the progress area visible exactly
\* when the job the page holds has status in_progress.
C29_UiMatchesJob ==
    (newsUI.btnDisabled /\ ~newsUI.progressHidden) <=> job.status = "in_progress"

\* C30: at no time is more than one start request outstanding.
C30_OneStartOutstanding ==
    startOutstanding <= 1

-----------------------------------------------------------------------------
(* Claims about the dashboard: withdrawal form, wallet poll, health card *)

C25_WalletPollFrame ==
    [][walletOut' < walletOut
        => /\ UNCHANGED <<dom, portsBody, hdrCounts, amountValue, wdBtnDisabled, wdOut,
                          withdrawView>>
           /\ walletView' =
                (IF /\ dashLog'.resp.kind = "json" /\ ~dashLog'.resp.body.isNull
                    /\ dashLog'.resp.body.ok /\ dashLog'.resp.body.wallet # Absent
                 THEN dashLog'.resp.body.wallet
                 ELSE walletView)]_vars

\* a wallet answer that also carried counts was applied: the balance is the answer's, the
\* header counts are those of the loaded page
C25_Witness ==
    /\ dashLog.op = "wallet" /\ dashLog.resp.kind = "json" /\ dashLog.resp.body.ok
    /\ dashLog.resp.body.counts # Absent
    /\ walletView = <<70, 900>> /\ hdrCounts = <<2, 0>>


\* C27: the cpu and ram lists have the same length, never hold more than 60 samples, hold
\* the latest samples of the answers that carried ok in their order of arrival, each number
\* stored lies in 0..100, and an answer without ok or a rejected request appends nothing
C27_HistoryBoundedFifo ==
    /\ [](/\ Len(history.cpu) = Len(history.ram)
          /\ Len(history.cpu) = (IF healthLog.accepted < 60 THEN healthLog.accepted ELSE 60)
          /\ \A i \in 1..Len(history.cpu) :
               /\ history.cpu[i].kind = "num" => history.cpu[i].v \in 0..100
               /\ history.ram[i].kind = "num" => history.ram[i].v \in 0..100
               /\ LET c == MetricsPayload(healthLog.accepted - Len(history.cpu) + i).cpu_percent
                  IN  history.cpu[i] =
                        (IF c.kind = "text" THEN [kind |-> "nan", v |-> 0]
                         ELSE IF c.kind = "absent" \/ c.v < 0 THEN [kind |-> "num", v |-> 0]
                         ELSE IF c.v > 100 THEN [kind |-> "num", v |-> 100]
                         ELSE [kind |-> "num", v |-> c.v])
               /\ LET r == MetricsPayload(healthLog.accepted - Len(history.ram) + i).ram_percent
                  IN  history.ram[i] =
                        (IF r.kind = "text" THEN [kind |-> "nan", v |-> 0]
                         ELSE IF r.kind = "absent" \/ r.v < 0 THEN [kind |-> "num", v |-> 0]
                         ELSE IF r.v > 100 THEN [kind |-> "num", v |-> 100]
                         ELSE [kind |-> "num", v |-> r.v]))
    /\ [][(metricsOut' < metricsOut /\ healthLog'.last # "ok") => UNCHANGED history]_vars

\* more than 60 answers with ok have arrived, samples were clamped at both ends, and the
\* last request was rejected
C27_Witness ==
    /\ healthLog.accepted > 60
    /\ Len(history.cpu) = 60
    /\ healthLog.last = "reject"
    /\ \E i, j \in 1..60 :
         /\ MetricsPayload(healthLog.accepted - 60 + i).cpu_percent.v > 100
         /\ history.cpu[i].v = 100
         /\ MetricsPayload(healthLog.accepted - 60 + j).ram_percent.v < 0
         /\ history.ram[j].v = 0

-----------------------------------------------------------------------------
(* Claims about the requests of every script *)

\* C26: every POST request sent carries the X-CSRFToken header and the X-Requested-With
\* header and is sent with same-origin credentials
C26_PostsCarryCsrf ==
    \A req \in wire :
        req.method = "POST"
            => /\ {"X-CSRFToken", "X-Requested-With"} \subseteq req.headers
               /\ req.credentials = "same-origin"

-----------------------------------------------------------------------------
(* Claims about the login page *)

\* C28: with the reduced-motion preference set, the background loop is never started (no
\* frame is requested, none runs), the tilt handlers are never bound (none handles a move)
\* and no confetti piece is emitted
C28_ReducedMotion ==
    prefersReduced
        => /\ bg.rafId = 0 /\ bg.t = 0
           /\ ~tilt.active /\ tilt.listeners = 0 /\ tilt.moves = 0
           /\ effects.confetti = 0

\* the page was initialised with the preference set, on a page with a card and both
\* flashes: the card was shaken, which no preference guards
C28_Witness ==
    /\ loginPc = "ready" /\ prefersReduced
    /\ card /\ flash.ok /\ flash.err
    /\ effects.shaken

\* C31: once a row is rendered as resolved, no click sends a further resolve request for
\* its port, whatever stage an earlier click on the same row was in when it was clicked
\* again.
C31_NoResolveAfterResolved ==
    [][\A f \in Clicks : Sends(f) => rowStatus[flows[f].row] # "resolved"]_vars

\* C32: once the table has been rendered anew, no countdown timer started on a row of the
\* rendering before is registered in rowTimers, and no click made on such a row sends a
\* resolve request or writes to its row.
C32_TimersOfDisplayedRows ==
    /\ [](~rowsLive => \A r \in Rows : rowTimers[r] = 0)
    /\ [][\A f \in Clicks :
            ~rowsLive => /\ ~Sends(f)
                         /\ rowStatus'[flows[f].row] = rowStatus[flows[f].row]
                         /\ miniHidden'[flows[f].row] = miniHidden[flows[f].row]]_vars

\* C33: a click on resolve sends one priming request and never another, starts at most 2
\* countdowns and makes at most 2 apiResolve invocations of at most 3 requests each, every
\* request under a key of its own among the 6 keys of the click, hence at most 6 resolve
\* requests; the click ends, leaving its row resolved or with its controls and the mini
\* indicator hidden, and does nothing after that; every click does end.
C33_ResolveBoundedWork ==
    /\ [](\A f \in Clicks :
            /\ flows[f].cds <= 2 /\ flows[f].cdsDone <= flows[f].cds
            /\ flows[f].call <= 2 /\ flows[f].callReqs <= 3)
    /\ [][/\ Len(flows') > Len(flows)
             => Len(flows') = Len(flows) + 1 /\ flows'[Len(flows')].pc = "priming"
          /\ \A f \in Clicks : flows'[f].pc = "priming" => flows[f] = flows'[f]]_vars
    /\ [][\A f \in Clicks :
            Sends(f) => /\ flows'[f].key \in {f} \X (1..2) \X (1..3)
                        /\ flows'[f].key # flows[f].key
                        /\ flows'[f].key[2] >= flows[f].call
                        /\ flows'[f].key[2] = flows[f].call
                             => flows'[f].key[3] = flows[f].callReqs + 1]_vars
    /\ [][\A f \in Clicks :
            (flows[f].pc # "done" /\ flows'[f].pc = "done")
                => \/ rowStatus'[flows[f].row] = "resolved"
                   \/ rowControls'[flows[f].row] /\ miniHidden'[flows[f].row]]_vars
    /\ [][\A f \in Clicks :
            flows[f].pc \in {"done", "cancelled"} => flows'[f] = flows[f]]_vars
    /\ \A f \in 1..MaxClicks :
            [](f \in Clicks => <>(f \in Clicks /\ flows[f].pc \in {"done", "cancelled"}))

\* a click went through two countdowns and two invocations, the second of three requests,
\* and ended in failure with the indicator hidden and the row still actionable
C33_Witness ==
    \E f \in Clicks :
        /\ flows[f].pc = "done" /\ flows[f].out = "failed"
        /\ flows[f].cds = 2 /\ flows[f].call = 2 /\ flows[f].last = "conflict"
        /\ miniHidden[flows[f].row] /\ rowControls[flows[f].row]

\* C34: a row whose mini indicator is visible has a countdown timer registered in rowTimers
\* or a request of a click on it outstanding or waiting for its retry (the archive request
\* of a click that cancelled the countdown included).
C34_NoOrphanedMini ==
    \A r \in Rows :
        ~miniHidden[r]
            => \/ rowTimers[r] # 0
               \/ archOut[r] > 0
               \/ \E f \in Clicks :
                    flows[f].row = r /\ flows[f].pc \in {"priming", "resolving", "backoff"}

-----------------------------------------------------------------------------
(* Further claims about the scan overlay animator *)

\* C35: scanInFlight is set exactly when the overlay is shown and exactly when the trigger
\* is disabled (for the elements the page holds; one it lacks is never shown or disabled);
\* the flag is set only by the accepting doScan, which shows and disables with it, and
\* cleared only by the closing timeout, which hides and enables with it.
C35_ScanStateCoupling ==
    /\ [](/\ scanInFlight <=> scanPc # "idle"
          /\ overlay = "flex" <=> (scanInFlight /\ "overlay" \in dom)
          /\ btnDisabled <=> (scanInFlight /\ "btn" \in dom))
    /\ [][(~scanInFlight /\ scanInFlight')
            => /\ scanLog'.accepted = scanLog.accepted + 1
               /\ "overlay" \in dom => overlay = "none" /\ overlay' = "flex"
               /\ "btn" \in dom => ~btnDisabled /\ btnDisabled']_vars
    /\ [][(scanInFlight /\ ~scanInFlight')
            => /\ scanPc = "closing" /\ scanLog'.closed = scanLog.closed + 1
               /\ "overlay" \in dom => overlay = "flex" /\ overlay' = "none"
               /\ "btn" \in dom => btnDisabled /\ ~btnDisabled']_vars
    /\ [][(overlay' # overlay \/ btnDisabled' # btnDisabled)
            => scanInFlight' # scanInFlight]_vars

\* on a page with overlay and trigger a second scan is in flight after the first was closed
C35_Witness ==
    /\ {"overlay", "btn"} \subseteq dom
    /\ scanLog.closed = 1 /\ scanLog.accepted = 2
    /\ scanInFlight /\ overlay = "flex" /\ btnDisabled

(* ------------------------------------------------------------------ *)
(* Further claims about the per-row flows                               *)
(* ------------------------------------------------------------------ *)

\* C36: during a countdown of T whole seconds the remaining value shown is
\* max(0, T - floor(elapsed seconds)); it never increases from one tick to the
\* next; the completion callback is invoked only once T whole seconds of wall-clock
\* time have elapsed since the countdown started; and a countdown of T = 0 fires at
\* its first tick.
C36_CountdownRemaining ==
    /\ [](\A f \in Clicks :
            flows[f].pc = "countdown"
                => flows[f].left =
                     (IF flows[f].cdTotal - (flows[f].cdElapsed \div 1000) > 0
                      THEN flows[f].cdTotal - (flows[f].cdElapsed \div 1000)
                      ELSE 0))
    /\ [][\A f \in Clicks :
            /\ (flows[f].pc = "countdown" /\ flows'[f].pc = "countdown"
                    /\ flows'[f].cds = flows[f].cds)
                  => flows'[f].left <= flows[f].left
            /\ flows'[f].cdsDone # flows[f].cdsDone
                  => /\ flows[f].pc = "countdown"
                     /\ ~flows'[f].early
                     /\ flows[f].cdElapsed + 3 * CountdownTickMs >= 1000 * flows[f].cdTotal
            /\ (flows[f].pc = "countdown" /\ flows[f].cdTotal = 0 /\ flows'[f] # flows[f])
                  => /\ flows[f].cdElapsed = 0
                     /\ flows'[f].cdsDone = flows[f].cdsDone + 1
                     /\ flows'[f].pc = "resolving"]_vars

\* a countdown of three seconds, 2.7 s after its start, showing one second left
C36_Witness ==
    \E f \in Clicks :
        /\ flows[f].pc = "countdown"
        /\ flows[f].cdTotal = 3
        /\ flows[f].cdElapsed = 2700
        /\ flows[f].left = 1

\* C37: when the priming request fails (non-2xx answer or rejected fetch) the click
\* still sends one direct resolve request, without a countdown before it, and the
\* answer is treated as after a priming answer of remaining = 0: ok resolves the row,
\* too_early with seconds_remaining > 0 starts a countdown followed by one retry, and
\* anything else hides the mini indicator and ends the click.
C37_PrimingFailureFallback ==
    /\ [][\A f \in Clicks :
            (flows[f].pc = "priming" /\ flows'[f].primed \in {"failed", "zero"})
                => /\ Sends(f)
                   /\ flows'[f].call = 1 /\ flows'[f].callReqs = 1
                   /\ flows'[f].cds = 0 /\ flows'[f].attempt = 0
                   /\ UNCHANGED <<rowTimers, miniHidden, rowStatus, rowControls>>]_vars
    /\ [][\A f \in Clicks :
            (flows[f].primed \in {"failed", "zero"} /\ Yields(f))
                => \/ /\ flows'[f].last = "ok"
                      /\ flows'[f].pc = "done" /\ flows'[f].out = "resolved"
                      /\ rowStatus'[flows[f].row] = "resolved"
                      /\ miniHidden'[flows[f].row]
                   \/ /\ flows'[f].last = "too_early" /\ flows[f].call = 1
                      /\ flows'[f].pc = "countdown" /\ flows'[f].cds = 1
                      /\ flows'[f].cdsDone = 0
                      /\ rowTimers'[flows[f].row] = f
                      /\ rowStatus' = rowStatus
                   \/ /\ flows'[f].last # "ok"
                      /\ ~(flows'[f].last = "too_early" /\ flows[f].call = 1)
                      /\ flows'[f].pc = "done" /\ flows'[f].out = "failed"
                      /\ miniHidden'[flows[f].row]
                      /\ rowStatus' = rowStatus /\ rowTimers' = rowTimers]_vars
    /\ [](\A f \in Clicks :
            flows[f].primed \in {"failed", "zero"}
                => /\ flows[f].cds <= 1 /\ flows[f].call <= 2
                   /\ flows[f].call = flows[f].cdsDone + 1
                   /\ flows[f].pc # "priming")

\* after a failed priming the direct resolve call was answered too_early, the
\* countdown ran out and the one retry resolved the row
C37_Witness ==
    \E f \in Clicks :
        /\ flows[f].primed = "failed" /\ flows[f].pc = "done"
        /\ flows[f].out = "resolved" /\ flows[f].last = "ok"
        /\ flows[f].call = 2 /\ flows[f].cdsDone = 1
        /\ rowStatus[flows[f].row] = "resolved"

\* C38: an archive click on a row with an active countdown clears the row's timer and
\* removes it from rowTimers in the step that sends the archive request; the cancelled
\* countdown never completes and never sends a resolve request, whatever the archive
\* request is answered.
C38_ArchiveCancelsCountdown ==
    /\ [](\A f \in Clicks :
            flows[f].pc = "countdown" => rowTimers[flows[f].row] = f)
    /\ [][\A r \in Rows :
            archOut'[r] = archOut[r] + 1
                => /\ rowTimers'[r] = 0
                   /\ \A f \in Clicks :
                        (flows[f].row = r /\ flows[f].pc = "countdown")
                            => /\ flows'[f].pc = "cancelled"
                               /\ flows'[f].cdsDone = flows[f].cdsDone
                               /\ flows'[f].call = flows[f].call]_vars
    /\ [][\A f \in Clicks :
            flows[f].pc = "cancelled" => flows'[f] = flows[f] /\ ~Sends(f)]_vars

\* the only resolve click's countdown was cancelled by an archive click, and the
\* archive request has been answered without ok
C38_Witness ==
    /\ Len(flows) = 1
    /\ flows[1].pc = "cancelled" /\ flows[1].cds = 1 /\ flows[1].cdsDone = 0
    /\ rowLog.archives = 1 /\ archOut[flows[1].row] = 0
    /\ rowLog.last.op = "archive" /\ ~AnsweredOk(rowLog.last.resp)
    /\ rowTimers[flows[1].row] = 0

-----------------------------------------------------------------------------
(* Further claims about the news-search poller *)

\* C39: at every moment at most one status-poll timeout is pending and at most one
\* one-second progress ticker is running, both being the ones pollTimer and tickTimer
\* refer to; a ticker runs only while the client's job is in_progress; and every
\* renderJob clears the ticker that ran before it, so that the ticker running after
\* it, if any, is the new one it started.
C39_NewsTimerHygiene ==
    /\ [](/\ newsLog.polls = (IF Armed(pollTimer) THEN 1 ELSE 0)
          /\ newsLog.tickers = (IF Armed(tickTimer) THEN 1 ELSE 0)
          /\ Armed(tickTimer) => job.status = "in_progress")
    /\ [][(\/ job' # job
           \/ /\ \/ statusOutstanding' < statusOutstanding
                 \/ startOutstanding' < startOutstanding
              /\ newsLog'.answer # "fail")
            => /\ newsLog'.tickers = (IF job'.status = "in_progress" THEN 1 ELSE 0)
               /\ Armed(tickTimer') => tickTimer' = <<TickMs>>]_vars

\* the page loaded with a running job, no search was started, and a status poll was
\* answered with the running job: renderJob replaced the running ticker by a new one
C39_Witness ==
    /\ newsLog.starts = 0 /\ newsLog.polled /\ newsLog.answer = "in_progress"
    /\ job.status = "in_progress"
    /\ tickTimer = <<TickMs>>
    /\ newsLog.tickers = 1 /\ newsLog.polls = 1

====
